---- MODULE Spec2Model ----
(***************************************************************************)
(* Model of the beacon control-plane server (dadleyy/pylite.api):          *)
(*   - the redis-backed device registry (beacon/device, RedisRegistry),    *)
(*     one step per redis command, so that handlers interleave between     *)
(*     commands exactly as concurrent HTTP requests do;                    *)
(*   - the HTTP route handlers of beacon/routes;                           *)
(*   - the device connection (StreamerConnection);                         *)
(*   - the device control processor (beacon/bg), whose source file is not  *)
(*     part of src/: it is modelled from spec.md section 4.6 and from its   *)
(*     test, beacon/bg/device_control_test.go.                              *)
(***************************************************************************)
EXTENDS Naturals, Integers, Sequences, FiniteSets, TLC

(***************************************************************************)
(* Bounds of the model.                                                     *)
(***************************************************************************)
\* store commands that may fail in one behaviour
MaxFailures == 1
\* handler invocations (HTTP requests) started in one behaviour
MaxOps == 3
\* readers published on the command stream in one behaviour
MaxCommands == 2
\* feedback messages received in one behaviour, from devices and over HTTP
MaxFeedback == 2

(***************************************************************************)
(* Program constants.                                                       *)
(***************************************************************************)
\* defs.RedisMaxFeedbackEntries: its defining file is not in src/; spec.md
\* section 3 gives 50 as the size of the feedback ring.
RedisMaxFeedbackEntries == 50
SecurityMinimumDeviceSharedSecretSize == 20
SecurityDeviceTokenPermissionViewer == 1
SecurityDeviceTokenPermissionController == 2
SecurityDeviceTokenPermissionAdmin == 4
SecurityDeviceTokenPermissionAll == 7
\* capacity of the Commands and Feedback channels (make(chan io.Reader, 1))
ChanCap == 1

(***************************************************************************)
(* Value universes.  uuid.NewV4 and GenerateToken are modelled as drawing  *)
(* a value that was never issued before.                                   *)
(***************************************************************************)
DeviceIDs == {"d1", "d2", "d3"}
Secrets == {"3082010a0282010100aa", "3082010a0282010100bb", "3082010a0282010100cc"}
SecretA == "3082010a0282010100aa"
SecretB == "3082010a0282010100bb"
SecretC == "3082010a0282010100cc"
Handlers == {"h1", "h2"}
Processor == "processor"
Callers == Handlers \cup {Processor}

ErrNotFound == "not-found"
ErrBadRedisResponse == "bad-redis-response"
ErrBadInterchangeAuthentication == "bad-interchange-authentication"
ErrBadInterchangeData == "bad-interchange-data"
ErrInvalidRegistrationRequest == "invalid-registration"
StoreError == "store-error"
Nil == "nil"

VARIABLES
  \* ---- the redis store -------------------------------------------------
  deviceRows,     \* device-registry:{id}     -> [uuid, name, secret]
  deviceIndex,    \* device-index              : list of device ids
  feedbackList,   \* device-feedback:{id}     -> list of messages, newest first
  allocRows,      \* registration-request:{a} -> [name, secret]
  tokenRows,      \* device-token:{raw}       -> [id, name, device, permission]
  tokenList,      \* device-token-list:{id}   -> list of raw tokens
  issued,         \* uuids and raw tokens handed out so far
  msgSeq,         \* feedback messages created so far
  failures,       \* store commands that have failed so far
  \* ---- tasks -------------------------------------------------------------
  task,           \* per caller: the registry call in progress and its locals
  ret,            \* per caller: the last call that returned, and its result
  ops,            \* handler invocations started so far
  \* ---- streams -----------------------------------------------------------
  commands, cmdClosed,
  registrations, regClosed,
  feedbackCh, fbClosed,
  kill,           \* "idle" | "pending" | "received"
  published,      \* history: the readers put on the command stream, in order
  \* ---- device control processor ----------------------------------------
  procState,      \* "Running" | "Draining" | "Terminated"
  procPC,         \* what the processor task is doing
  pool,           \* sequence of pooled connections (device ids)
  drained,        \* number of pool entries Close()d while draining
  waitReleased,   \* wg.Done() was called
  log,            \* error strings written to the processor's logger
  \* ---- device connections ------------------------------------------------
  closeCalls,     \* per connection: number of Close() calls
  inSend,         \* per connection: Send invocations in progress
  delivered,      \* per connection: message numbers written to the socket
  \* ---- observation of AuthorizeToken calls -------------------------------
  authCall

storeVars == <<deviceRows, deviceIndex, feedbackList, allocRows, tokenRows, tokenList>>
taskVars == <<task, ret, ops>>
streamVars == <<commands, cmdClosed, registrations, regClosed, feedbackCh, fbClosed, kill, published>>
procVars == <<procState, procPC, pool, drained, waitReleased, log>>
connVars == <<closeCalls, inSend, delivered>>
vars == <<deviceRows, deviceIndex, feedbackList, allocRows, tokenRows, tokenList,
          issued, msgSeq, failures, task, ret, ops,
          commands, cmdClosed, registrations, regClosed, feedbackCh, fbClosed, kill, published,
          procState, procPC, pool, drained, waitReleased, log,
          closeCalls, inSend, delivered, authCall>>

(***************************************************************************)
(* Small helpers.                                                           *)
(***************************************************************************)
Range(s) == {s[i] : i \in 1..Len(s)}

\* a redis key space is a function whose domain is the set of existing keys
Del(f, k) == [x \in (DOMAIN f) \ {k} |-> f[x]]
Put(f, k, v) == [x \in (DOMAIN f) \cup {k} |-> IF x = k THEN v ELSE f[x]]

\* redis lists: a missing key reads as the empty list
ListOf(f, k) == IF k \in DOMAIN f THEN f[k] ELSE <<>>
\* fault: the value is put at the tail of the list
RPush(f, k, v) == Put(f, k, ListOf(f, k) \o <<v>>)

\* LPUSH key v
LPush(f, k, v) == Put(f, k, <<v>> \o ListOf(f, k))

RECURSIVE RemoveFirst(_, _)
\* LREM key 1 v: remove the first occurrence of v
RemoveFirst(s, v) ==
  IF s = <<>> THEN <<>>
  ELSE IF Head(s) = v THEN Tail(s)
  ELSE <<Head(s)>> \o RemoveFirst(Tail(s), v)

\* LTRIM key 0 stop (stop >= -1): keep the elements of index 0..stop
LTrim(s, stop) ==
  IF stop < 0 THEN SubSeq(s, 1, Len(s) + stop + 1)
  ELSE SubSeq(s, 1, IF stop + 1 < Len(s) THEN stop + 1 ELSE Len(s))

\* LRANGE key 0 stop (stop >= 0): the elements of index 0..stop, both included
LRange(s, stop) == SubSeq(s, 1, IF stop + 1 < Len(s) THEN stop + 1 ELSE Len(s))

(***************************************************************************)
(* Text and bit helpers.  A redis string is a TLA+ string, except the      *)
(* permission mask, which is kept as its sequence of characters so that    *)
(* fmt.Sprintf("%b") and strconv.ParseUint(s, 2, 32) are computed.         *)
(***************************************************************************)
RECURSIVE FormatBase2(_)
\* fmt.Sprintf("%b", n)
FormatBase2(n) ==
  IF n < 2 THEN <<IF n = 0 THEN "0" ELSE "1">>
  ELSE FormatBase2(n \div 2) \o <<IF n % 2 = 0 THEN "0" ELSE "1">>

\* A uint of the 64-bit build is kept as two words, hi * 2^WordBits + lo with
\* lo < 2^WordBits, so that values beyond 32 bits can be written.
WordBits == 30

\* the digits of s after WordBits - Len(s) leading zeros
PadWord(s) == [i \in 1..(WordBits - Len(s)) |-> "0"] \o s

\* fmt.Sprintf("%b", hi * 2^WordBits + lo)
FormatUint(hi, lo) ==
  IF hi = 0 THEN FormatBase2(lo) ELSE FormatBase2(hi) \o PadWord(FormatBase2(lo))

RECURSIVE Base2Value(_)
Base2Value(s) ==
  IF s = <<>> THEN 0
  ELSE 2 * Base2Value(SubSeq(s, 1, Len(s) - 1)) + (IF s[Len(s)] = "1" THEN 1 ELSE 0)

RECURSIVE SignificantBits(_)
\* the length of s without its leading zeros
SignificantBits(s) ==
  IF s = <<>> THEN 0
  ELSE IF Head(s) = "0" THEN SignificantBits(Tail(s))
  ELSE Len(s)

\* strconv.ParseUint(s, 2, 32): a syntax error on an empty string or on a
\* character other than 0 and 1, a range error beyond 32 bits
ParseUint2(s) ==
  IF s = <<>> \/ (\E i \in 1..Len(s) : s[i] \notin {"0", "1"}) THEN [ok |-> FALSE, val |-> 0]
  ELSE IF SignificantBits(s) > 32 THEN [ok |-> FALSE, val |-> 0]
  ELSE [ok |-> TRUE, val |-> Base2Value(s)]

RECURSIVE BitAnd(_, _)
\* a & b on unsigned integers
BitAnd(a, b) ==
  IF a = 0 \/ b = 0 THEN 0
  ELSE 2 * BitAnd(a \div 2, b \div 2) + (IF a % 2 = 1 /\ b % 2 = 1 THEN 1 ELSE 0)

(***************************************************************************)
(* RedisRegistry: the reads.                                                *)
(***************************************************************************)
NoDevice(e) == [err |-> e, DeviceID |-> "", Name |-> "", SharedSecret |-> ""]
NoToken(e) == [err |-> e, TokenID |-> "", Name |-> "", DeviceID |-> "", Permission |-> 0]

\* hmgetstr: an empty field is an error
RowFilled(row) == row.uuid # "" /\ row.name # "" /\ row.secret # ""

\* loadDetails: every field must be longer than one character
loadDetails(row) ==
  IF ~RowFilled(row) THEN NoDevice("invalid-entry")
  ELSE IF Len(row.uuid) <= 1 \/ Len(row.name) <= 1 \/ Len(row.secret) <= 1
       THEN NoDevice("invalid-device")
  ELSE [err |-> Nil, DeviceID |-> row.uuid, Name |-> row.name, SharedSecret |-> row.secret]

\* the rows of the KEYS scan that end it: an unreadable row (error) or a match
ScanDecisive(rows, query) ==
  {k \in DOMAIN rows : ~RowFilled(rows[k]) \/ rows[k].name = query \/ rows[k].uuid = query}

\* FindDevice(query): EXISTS on the key, else a KEYS scan in the store's
\* (unspecified) key order; the set of results the call can return
FindDeviceIn(rows, query) ==
  IF query \in DOMAIN rows THEN {loadDetails(rows[query])}
  ELSE IF ScanDecisive(rows, query) = {} THEN {NoDevice(ErrNotFound)}
  ELSE {IF ~RowFilled(rows[k]) THEN NoDevice("invalid-entry")
        ELSE [err |-> Nil, DeviceID |-> rows[k].uuid, Name |-> rows[k].name,
              SharedSecret |-> rows[k].secret] : k \in ScanDecisive(rows, query)}

FindDevice(query) == FindDeviceIn(deviceRows, query)

\* FindToken(token): HGET permission, ParseUint, HMGET id name device
FindToken(token) ==
  IF token \notin DOMAIN tokenRows THEN NoToken(ErrNotFound)
  ELSE IF ~ParseUint2(tokenRows[token].permission).ok THEN NoToken("invalid-syntax")
  ELSE IF tokenRows[token].id = "" \/ tokenRows[token].name = "" \/ tokenRows[token].device = ""
       THEN NoToken("invalid-entry")
  ELSE [err |-> Nil, TokenID |-> tokenRows[token].id, Name |-> tokenRows[token].name,
        DeviceID |-> tokenRows[token].device,
        Permission |-> ParseUint2(tokenRows[token].permission).val]

\* AuthorizeToken, given the result of its FindDevice(deviceID)
AuthorizeToken(registration, token, permission) ==
  IF registration.err # Nil THEN FALSE
  ELSE IF token = registration.SharedSecret THEN TRUE
  ELSE IF FindToken(token).err # Nil THEN FALSE
  ELSE BitAnd(FindToken(token).Permission, permission) = permission

\* AuthorizeToken of the file's second RedisRegistry definition
AuthorizeTokenSecond(registration, token, permission) ==
  IF registration.err # Nil THEN FALSE
  ELSE IF token = registration.SharedSecret THEN TRUE
  ELSE IF FindToken(token).err # Nil THEN FALSE
  ELSE BitAnd(FindToken(token).Permission, permission) # 0

(***************************************************************************)
(* Tasks.  An HTTP handler runs on its own goroutine; the model gives each *)
(* caller one task record holding the call in progress and its locals.     *)
(***************************************************************************)
Idle == [op |-> "idle", pc |-> "idle", id |-> "", secret |-> "", name |-> "",
         perm |-> 0, tok |-> "", keys |-> <<>>, key |-> "", count |-> 0,
         msg |-> 0, nomatch |-> FALSE, known |-> FALSE, asked |-> 0,
         second |-> FALSE, out |-> <<>>, hi |-> 0]

NoRet == [op |-> "", id |-> "", res |-> ""]

IsIdle(c) == task[c].op = "idle"
At(c, op, pc) == task[c].op = op /\ task[c].pc = pc

\* the call of caller c returns res
Returns(c, res) ==
  /\ task' = [task EXCEPT ![c] = Idle]
  /\ ret' = [ret EXCEPT ![c] = [op |-> task[c].op, id |-> task[c].id, res |-> res]]

Goto(c, t) == task' = [task EXCEPT ![c] = t] /\ UNCHANGED ret

\* a handler invocation starts
Starts(h, t) ==
  /\ IsIdle(h)
  /\ ops < MaxOps
  /\ ops' = ops + 1
  /\ task' = [task EXCEPT ![h] = t]
  /\ UNCHANGED ret

\* a store command may fail (connection error) at most MaxFailures times
CanFail == failures < MaxFailures
Fails == CanFail /\ failures' = failures + 1
Succeeds == UNCHANGED failures

\* uuid.NewV4 and GenerateToken: a value never issued before.  Fresh values
\* are interchangeable, so they are issued in the order of seq.
RECURSIVE Fresh(_)
Fresh(seq) ==
  IF seq = <<>> THEN {}
  ELSE IF Head(seq) \notin issued THEN {Head(seq)}
  ELSE Fresh(Tail(seq))

\* all orders in which KEYS may list a set of keys
RECURSIVE Orders(_)
Orders(S) == IF S = {} THEN {<<>>} ELSE UNION {{<<x>> \o s : s \in Orders(S \ {x})} : x \in S}

notStore == <<streamVars, procVars, connVars, authCall, msgSeq>>

(***************************************************************************)
(* Registration.Preregister (POST /devices/preregister) and                *)
(* RedisRegistry.AllocateRegistration.                                     *)
(***************************************************************************)
\* hex.DecodeString + x509.ParsePKIXPublicKey + the rsa type assertion: the
\* shared secrets of the model are well-formed keys, anything else is not
ValidRSAKey(secret) == secret \in Secrets

\* the name is held by a pending allocation or a device row: an earlier
\* preregistration of it has succeeded
NameKnown(name) ==
  \/ \E a \in DOMAIN allocRows : allocRows[a].name = name
  \/ \E d \in DOMAIN deviceRows : deviceRows[d].name = name

\* known records, for the properties, whether the name was held at the start
PreregisterStart(h, name, secret) ==
  /\ Starts(h, [Idle EXCEPT !.op = "Preregister", !.pc = "find", !.id = name,
                            !.name = name, !.secret = secret,
                            !.known = NameKnown(name)])
  /\ UNCHANGED <<storeVars, issued, failures, notStore>>

\* runtime checks of the request, then registry.Find(request.Name): a found
\* device is a duplicate name, any error lets the request through
PreregisterFind(h) ==
  /\ At(h, "Preregister", "find")
  /\ IF ~(Len(task[h].name) > 1 /\ Len(task[h].secret) > 1)
       THEN Returns(h, "bad-request") /\ Succeeds
     ELSE \/ \E r \in FindDevice(task[h].name) :
               /\ Succeeds
               /\ IF r.err = Nil THEN Returns(h, "duplicate-name")
                  ELSE IF ~ValidRSAKey(task[h].secret) THEN Returns(h, "invalid-key")
                  ELSE Goto(h, [task[h] EXCEPT !.pc = "allocate"])
          \/ /\ Fails
             /\ IF ~ValidRSAKey(task[h].secret) THEN Returns(h, "invalid-key")
                ELSE Goto(h, [task[h] EXCEPT !.pc = "allocate"])
  /\ UNCHANGED <<storeVars, issued, ops, notStore>>

\* a direct call of RedisRegistry.AllocateRegistration
AllocateStart(c, name, secret) ==
  /\ Starts(c, [Idle EXCEPT !.op = "AllocateRegistration", !.pc = "allocate", !.id = name,
                            !.name = name, !.secret = secret])
  /\ UNCHANGED <<storeVars, issued, failures, notStore>>

\* fault: the minimum sizes are not checked
AnyRegistrationRequest(name, secret) == TRUE

\* the minimum sizes of a registration request
ValidRegistrationRequest(name, secret) ==
  ~(Len(name) < 4 \/ Len(secret) < SecurityMinimumDeviceSharedSecretSize)

\* the registry's error e as the caller sees it: Preregister answers
\* ServerError for any error
AllocateReturns(h, e) ==
  Returns(h, IF task[h].op = "Preregister" /\ e # Nil THEN "server-error" ELSE e)

\* AllocateRegistration: the minimum sizes, then HMSET of a new allocation row
AllocateRegistration(h) ==
  /\ task[h].op \in {"Preregister", "AllocateRegistration"}
  /\ task[h].pc = "allocate"
  /\ IF ~ValidRegistrationRequest(task[h].name, task[h].secret)
       THEN /\ AllocateReturns(h, ErrInvalidRegistrationRequest)
            /\ Succeeds
            /\ UNCHANGED <<allocRows, issued>>
     ELSE \E a \in Fresh(<<"a1", "a2", "a3">>) :
            /\ issued' = issued \cup {a}
            /\ \/ /\ Succeeds
                  /\ allocRows' = Put(allocRows, a, [name |-> task[h].name, secret |-> task[h].secret])
                  /\ AllocateReturns(h, Nil)
               \/ /\ Fails
                  /\ UNCHANGED allocRows
                  /\ AllocateReturns(h, StoreError)
  /\ UNCHANGED <<deviceRows, deviceIndex, feedbackList, tokenRows, tokenList, ops, notStore>>

(***************************************************************************)
(* Registration.Register (POST /register), RedisRegistry.FillRegistration  *)
(* and RedisRegistry.fill.                                                 *)
(***************************************************************************)
\* security.ParseDeviceKey of the X-Device-Auth header
ParseDeviceKeyOk(secret) == secret \in Secrets

\* the handler upgrades the socket and mints the uuid before anything else
RegisterStart(h, secret) ==
  /\ \E u \in Fresh(<<"d1", "d2", "d3">>) :
       /\ issued' = issued \cup {u}
       /\ Starts(h, [Idle EXCEPT !.op = "Register", !.pc = "keys", !.id = u, !.secret = secret])
  /\ UNCHANGED <<storeVars, failures, notStore>>

\* fault: every allocation is taken to match
AnySecretMatches(s, secret) == TRUE

\* s == secret: the allocation matches the secret being filled
SecretMatches(s, secret) == s = secret

\* KEYS registration-request:*
FillKeys(h) ==
  /\ At(h, "Register", "keys")
  /\ IF ~ParseDeviceKeyOk(task[h].secret)
       THEN /\ Returns(h, "invalid-key")
            /\ closeCalls' = [closeCalls EXCEPT ![task[h].id] = @ + 1]
            /\ Succeeds
     ELSE \/ /\ Succeeds
             /\ \E ks \in Orders(DOMAIN allocRows) :
                  IF ks = <<>>
                    THEN /\ Returns(h, ErrNotFound)
                         /\ closeCalls' = [closeCalls EXCEPT ![task[h].id] = @ + 1]
                    ELSE /\ Goto(h, [task[h] EXCEPT !.pc = "hget", !.keys = ks,
                                       !.nomatch = \A a \in DOMAIN allocRows :
                                                     allocRows[a].secret # task[h].secret])
                         /\ UNCHANGED closeCalls
          \/ /\ Fails
             /\ \E e \in {StoreError, ErrBadRedisResponse} : Returns(h, e)
             /\ closeCalls' = [closeCalls EXCEPT ![task[h].id] = @ + 1]
  /\ UNCHANGED <<storeVars, issued, msgSeq, ops, streamVars, procVars, inSend, delivered, authCall>>

\* HGET k registration:secret for the next listed key: an error or a missing
\* key moves on to the next key; the first match is filled
FillHGet(h) ==
  /\ At(h, "Register", "hget")
  /\ LET k == Head(task[h].keys)
         rest == Tail(task[h].keys)
         next == IF rest = <<>>
                   THEN /\ Returns(h, ErrNotFound)
                        /\ closeCalls' = [closeCalls EXCEPT ![task[h].id] = @ + 1]
                   ELSE /\ Goto(h, [task[h] EXCEPT !.keys = rest])
                        /\ UNCHANGED closeCalls
     IN \/ /\ Succeeds
           /\ IF k \in DOMAIN allocRows /\ SecretMatches(allocRows[k].secret, task[h].secret)
                THEN /\ Goto(h, [task[h] EXCEPT !.pc = "load", !.key = k, !.keys = <<>>])
                     /\ UNCHANGED closeCalls
                ELSE next
        \/ /\ Fails
           /\ next
  /\ UNCHANGED <<storeVars, issued, msgSeq, ops, streamVars, procVars, inSend, delivered, authCall>>

\* fault: the socket is left open after a failed Fill
RegisterFailsOpen(h, e) ==
  /\ Returns(h, e)
  /\ UNCHANGED closeCalls

\* the Register handler after a failed Fill: close the socket, push nothing
RegisterFails(h, e) ==
  /\ Returns(h, e)
  /\ closeCalls' = [closeCalls EXCEPT ![task[h].id] = @ + 1]

\* fill: loadRequest(requestKey), HMGET registration:secret registration:name
fillLoad(h) ==
  /\ At(h, "Register", "load")
  /\ \/ /\ Succeeds
        /\ IF task[h].key \notin DOMAIN allocRows
             THEN RegisterFails(h, "invalid-entry")
           ELSE IF Len(allocRows[task[h].key].secret) <= 1 \/ Len(allocRows[task[h].key].name) <= 1
             THEN RegisterFails(h, "invalid-request")
           ELSE /\ Goto(h, [task[h] EXCEPT !.pc = "lpush", !.name = allocRows[task[h].key].name,
                                           !.secret = allocRows[task[h].key].secret])
                /\ UNCHANGED closeCalls
     \/ /\ Fails
        /\ RegisterFails(h, StoreError)
  /\ UNCHANGED <<storeVars, issued, msgSeq, ops, streamVars, procVars, inSend, delivered, authCall>>

\* fill: LPUSH device-index deviceID
fillLPush(h) ==
  /\ At(h, "Register", "lpush")
  /\ \/ /\ Succeeds
        /\ deviceIndex' = <<task[h].id>> \o deviceIndex
        /\ Goto(h, [task[h] EXCEPT !.pc = "hmset"])
        /\ UNCHANGED closeCalls
     \/ /\ Fails
        /\ UNCHANGED deviceIndex
        /\ RegisterFails(h, StoreError)
  /\ UNCHANGED <<deviceRows, feedbackList, allocRows, tokenRows, tokenList, issued, msgSeq, ops,
                 streamVars, procVars, inSend, delivered, authCall>>

\* fill: HMSET device-registry:{id} uuid name secret
fillHMSet(h) ==
  /\ At(h, "Register", "hmset")
  /\ \/ /\ Succeeds
        /\ deviceRows' = Put(deviceRows, task[h].id,
                             [uuid |-> task[h].id, name |-> task[h].name, secret |-> task[h].secret])
        /\ Goto(h, [task[h] EXCEPT !.pc = "del"])
        /\ UNCHANGED closeCalls
     \/ /\ Fails
        /\ UNCHANGED deviceRows
        /\ RegisterFails(h, StoreError)
  /\ UNCHANGED <<deviceIndex, feedbackList, allocRows, tokenRows, tokenList, issued, msgSeq, ops,
                 streamVars, procVars, inSend, delivered, authCall>>

\* fill: the deferred DEL of the allocation row, its error ignored; fill returns nil
fillDel(h) ==
  /\ At(h, "Register", "del")
  /\ \/ /\ Succeeds
        /\ allocRows' = Del(allocRows, task[h].key)
     \/ /\ Fails
        /\ UNCHANGED allocRows
  /\ Goto(h, [task[h] EXCEPT !.pc = "push"])
  /\ UNCHANGED <<deviceRows, deviceIndex, feedbackList, tokenRows, tokenList, issued, ops,
                 notStore>>

\* registrations.stream <- NewStreamerConnection(connection, uuid, deviceKey):
\* the send blocks until the processor receives it
RegisterPush(h) ==
  /\ At(h, "Register", "push")
  /\ ~regClosed
  /\ registrations = <<>>
  /\ registrations' = <<task[h].id>>
  /\ Returns(h, Nil)
  /\ UNCHANGED <<storeVars, issued, msgSeq, failures, ops, commands, cmdClosed, regClosed,
                 feedbackCh, fbClosed, kill, published, procVars, connVars, authCall>>

(***************************************************************************)
(* RedisRegistry.RemoveDevice (DELETE /devices/{id}).                      *)
(***************************************************************************)
RemoveDeviceStart(h, id) ==
  /\ Starts(h, [Idle EXCEPT !.op = "RemoveDevice", !.pc = "delrow", !.id = id])
  /\ UNCHANGED <<storeVars, issued, failures, notStore>>

\* DEL device-registry:{id}
RemoveDelRow(h) ==
  /\ At(h, "RemoveDevice", "delrow")
  /\ \/ /\ Succeeds
        /\ deviceRows' = Del(deviceRows, task[h].id)
        /\ Goto(h, [task[h] EXCEPT !.pc = "delfeed"])
     \/ /\ Fails
        /\ UNCHANGED deviceRows
        /\ Returns(h, StoreError)
  /\ UNCHANGED <<deviceIndex, feedbackList, allocRows, tokenRows, tokenList, issued, ops, notStore>>

\* RemoveDevice of the file's second RedisRegistry definition
RemoveDeviceSecondStart(h, id) ==
  /\ Starts(h, [Idle EXCEPT !.op = "RemoveDevice", !.pc = "delrow", !.id = id, !.second = TRUE])
  /\ UNCHANGED <<storeVars, issued, failures, notStore>>

\* DEL device-feedback:{id}
RemoveDelFeedback(h) ==
  /\ At(h, "RemoveDevice", "delfeed")
  /\ \/ /\ Succeeds
        /\ feedbackList' = Del(feedbackList, task[h].id)
        /\ Goto(h, [task[h] EXCEPT !.pc = "lrem"])
     \/ /\ Fails
        /\ UNCHANGED feedbackList
        /\ Returns(h, StoreError)
  /\ UNCHANGED <<deviceRows, deviceIndex, allocRows, tokenRows, tokenList, issued, ops, notStore>>

\* LREM device-index 1 id
RemoveLRem(h) ==
  /\ At(h, "RemoveDevice", "lrem")
  /\ ~task[h].second
  /\ \/ /\ Succeeds
        /\ deviceIndex' = RemoveFirst(deviceIndex, task[h].id)
        /\ Goto(h, [task[h] EXCEPT !.pc = "lrange"])
     \/ /\ Fails
        /\ UNCHANGED deviceIndex
        /\ Returns(h, StoreError)
  /\ UNCHANGED <<deviceRows, feedbackList, allocRows, tokenRows, tokenList, issued, ops, notStore>>

\* LREM device-index 1 id of the second definition: its error is dropped
RemoveLRemSecond(h) ==
  /\ At(h, "RemoveDevice", "lrem")
  /\ task[h].second
  /\ \/ /\ Succeeds
        /\ deviceIndex' = RemoveFirst(deviceIndex, task[h].id)
     \/ /\ Fails
        /\ UNCHANGED deviceIndex
  /\ Goto(h, [task[h] EXCEPT !.pc = "lrange"])
  /\ UNCHANGED <<deviceRows, feedbackList, allocRows, tokenRows, tokenList, issued, ops, notStore>>

\* DEL device-token-list:{id}, whose result is the call's result
RemoveDelTokenList(h) ==
  \/ /\ Succeeds
     /\ tokenList' = Del(tokenList, task[h].id)
     /\ Returns(h, Nil)
  \/ /\ Fails
     /\ UNCHANGED tokenList
     /\ Returns(h, StoreError)

\* LRANGE device-token-list:{id} 0 -1
RemoveLRange(h) ==
  /\ At(h, "RemoveDevice", "lrange")
  /\ \/ /\ Succeeds
        /\ Goto(h, [task[h] EXCEPT !.pc = "deltok", !.keys = ListOf(tokenList, task[h].id)])
     \/ /\ Fails
        /\ Returns(h, StoreError)
  /\ UNCHANGED <<storeVars, issued, ops, notStore>>

\* fault: the listed token is passed over without its DEL
RemoveDelTokenSkips(h) ==
  /\ At(h, "RemoveDevice", "deltok")
  /\ task[h].keys # <<>>
  /\ \/ Succeeds
     \/ Fails
  /\ UNCHANGED tokenRows
  /\ Goto(h, [task[h] EXCEPT !.keys = Tail(@)])
  /\ UNCHANGED <<deviceRows, deviceIndex, feedbackList, allocRows, tokenList, issued, ops, notStore>>

\* DEL device-token:{t} for the next listed token, its error ignored
RemoveDelToken(h) ==
  /\ At(h, "RemoveDevice", "deltok")
  /\ task[h].keys # <<>>
  /\ \/ /\ Succeeds
        /\ tokenRows' = Del(tokenRows, Head(task[h].keys))
     \/ /\ Fails
        /\ UNCHANGED tokenRows
  /\ Goto(h, [task[h] EXCEPT !.keys = Tail(@)])
  /\ UNCHANGED <<deviceRows, deviceIndex, feedbackList, allocRows, tokenList, issued, ops, notStore>>

RemoveFinish(h) ==
  /\ At(h, "RemoveDevice", "deltok")
  /\ task[h].keys = <<>>
  /\ RemoveDelTokenList(h)
  /\ UNCHANGED <<deviceRows, deviceIndex, feedbackList, allocRows, tokenRows, issued, ops, notStore>>

(***************************************************************************)
(* RedisRegistry.ListRegistrations, in both definitions of the file.       *)
(***************************************************************************)
\* what HMGET answers for a key that does not exist
EmptyRow == [uuid |-> "", name |-> "", secret |-> ""]

RowOf(k) == IF k \in DOMAIN deviceRows THEN deviceRows[k] ELSE EmptyRow

\* the call of caller c returns res with the list results; out keeps the
\* returned list for the properties
ReturnsList(c, res, results) ==
  /\ task' = [task EXCEPT ![c] = [Idle EXCEPT !.out = results]]
  /\ ret' = [ret EXCEPT ![c] = [op |-> task[c].op, id |-> task[c].id, res |-> res]]

ListRegistrationsStart(h, second) ==
  /\ Starts(h, [Idle EXCEPT !.op = "ListRegistrations", !.pc = "lrange", !.second = second])
  /\ UNCHANGED <<storeVars, issued, failures, notStore>>

\* LRANGE device-index 0 -1
ListRegistrationsLRange(h) ==
  /\ At(h, "ListRegistrations", "lrange")
  /\ \/ /\ Succeeds
        /\ Goto(h, [task[h] EXCEPT !.pc = "load", !.keys = deviceIndex, !.count = 0])
     \/ /\ Fails
        /\ \E e \in {StoreError, ErrBadRedisResponse} : ReturnsList(h, e, <<>>)
  /\ UNCHANGED <<storeVars, issued, ops, notStore>>

\* loadDetails of the next listed id: the first definition returns its
\* error, the second goes on to the next id
ListRegistrationsLoad(h) ==
  /\ At(h, "ListRegistrations", "load")
  /\ task[h].count < Len(task[h].keys)
  /\ LET r == loadDetails(RowOf(task[h].keys[task[h].count + 1]))
         skip == Goto(h, [task[h] EXCEPT !.count = @ + 1])
     IN \/ /\ Succeeds
           /\ IF r.err = Nil
                THEN Goto(h, [task[h] EXCEPT !.count = @ + 1, !.out = Append(@, r.DeviceID)])
                ELSE IF task[h].second THEN skip ELSE ReturnsList(h, r.err, <<>>)
        \/ /\ Fails
           /\ IF task[h].second THEN skip ELSE ReturnsList(h, StoreError, <<>>)
  /\ UNCHANGED <<storeVars, issued, ops, notStore>>

\* every listed id was visited: return results, nil
ListRegistrationsReturn(h) ==
  /\ At(h, "ListRegistrations", "load")
  /\ task[h].count = Len(task[h].keys)
  /\ ReturnsList(h, Nil, task[h].out)
  /\ UNCHANGED <<storeVars, issued, failures, ops, notStore>>

(***************************************************************************)
(* RedisRegistry.ListTokens.                                               *)
(***************************************************************************)
\* hmgetstr of the four fields of a token row, then ParseUint of the
\* permission
loadToken(raw) ==
  IF raw \notin DOMAIN tokenRows THEN NoToken("invalid-entry")
  ELSE IF \/ tokenRows[raw].id = "" \/ tokenRows[raw].name = ""
          \/ tokenRows[raw].device = "" \/ tokenRows[raw].permission = <<>>
       THEN NoToken("invalid-entry")
  ELSE IF ~ParseUint2(tokenRows[raw].permission).ok THEN NoToken("invalid-syntax")
  ELSE [err |-> Nil, TokenID |-> tokenRows[raw].id, Name |-> tokenRows[raw].name,
        DeviceID |-> tokenRows[raw].device,
        Permission |-> ParseUint2(tokenRows[raw].permission).val]

ListTokensStart(h, query) ==
  /\ Starts(h, [Idle EXCEPT !.op = "ListTokens", !.pc = "find", !.id = query])
  /\ UNCHANGED <<storeVars, issued, failures, notStore>>

\* FindDevice(query)
ListTokensFind(h) ==
  /\ At(h, "ListTokens", "find")
  /\ \/ /\ Succeeds
        /\ \E r \in FindDevice(task[h].id) :
             IF r.err # Nil THEN ReturnsList(h, r.err, <<>>)
             ELSE Goto(h, [task[h] EXCEPT !.pc = "lrange", !.key = r.DeviceID])
     \/ /\ Fails
        /\ ReturnsList(h, StoreError, <<>>)
  /\ UNCHANGED <<storeVars, issued, ops, notStore>>

\* LRANGE device-token-list:{deviceID} 0 -1
ListTokensLRange(h) ==
  /\ At(h, "ListTokens", "lrange")
  /\ \/ /\ Succeeds
        /\ Goto(h, [task[h] EXCEPT !.pc = "load", !.keys = ListOf(tokenList, task[h].key),
                                   !.count = 0])
     \/ /\ Fails
        /\ \E e \in {StoreError, ErrBadRedisResponse} : ReturnsList(h, e, <<>>)
  /\ UNCHANGED <<storeVars, issued, ops, notStore>>

\* fault: an entry that cannot be loaded ends the call with its error
ListTokensLoadStops(h) ==
  /\ At(h, "ListTokens", "load")
  /\ task[h].count < Len(task[h].keys)
  /\ LET r == loadToken(task[h].keys[task[h].count + 1])
     IN \/ /\ Succeeds
           /\ IF r.err = Nil
                THEN Goto(h, [task[h] EXCEPT !.count = @ + 1, !.out = Append(@, r)])
                ELSE ReturnsList(h, r.err, <<>>)
        \/ /\ Fails
           /\ ReturnsList(h, StoreError, <<>>)
  /\ UNCHANGED <<storeVars, issued, ops, notStore>>

\* the next entry of the list: an entry whose HMGET fails, whose row has an
\* empty field or whose permission does not parse is skipped
ListTokensLoad(h) ==
  /\ At(h, "ListTokens", "load")
  /\ task[h].count < Len(task[h].keys)
  /\ LET r == loadToken(task[h].keys[task[h].count + 1])
     IN \/ /\ Succeeds
           /\ IF r.err = Nil
                THEN Goto(h, [task[h] EXCEPT !.count = @ + 1, !.out = Append(@, r)])
                ELSE Goto(h, [task[h] EXCEPT !.count = @ + 1])
        \/ /\ Fails
           /\ Goto(h, [task[h] EXCEPT !.count = @ + 1])
  /\ UNCHANGED <<storeVars, issued, ops, notStore>>

\* every entry was visited: return results, nil
ListTokensReturn(h) ==
  /\ At(h, "ListTokens", "load")
  /\ task[h].count = Len(task[h].keys)
  /\ ReturnsList(h, Nil, task[h].out)
  /\ UNCHANGED <<storeVars, issued, failures, ops, notStore>>

(***************************************************************************)
(* Tokens.CreateToken (POST /device-tokens) and RedisRegistry.CreateToken. *)
(***************************************************************************)
\* the uuid minted as the TokenID of a raw token
TokenUUID(raw) == IF raw = "t1" THEN "u1" ELSE "u2"

\* fault: the requested permission is taken as it is
RequestedPermission(permission) == permission

\* a request with none of the known bits is given the viewer permission
DefaultPermission(permission) ==
  IF BitAnd(permission, SecurityDeviceTokenPermissionAll) = 0
    THEN SecurityDeviceTokenPermissionViewer
    ELSE permission

\* the request of a permission hi * 2^WordBits + permission: the bits that
\* the default looks at are in the low word; asked records, for the
\* properties, the low word of the request
CreateTokenRequest(h, deviceID, name, hi, permission, header) ==
  /\ Starts(h, [Idle EXCEPT !.op = "CreateToken", !.pc = "find", !.id = deviceID, !.name = name,
                            !.perm = DefaultPermission(permission),
                            !.hi = IF BitAnd(permission, SecurityDeviceTokenPermissionAll) = 0
                                     THEN 0 ELSE hi,
                            !.tok = header, !.asked = permission])
  /\ UNCHANGED <<storeVars, issued, failures, notStore>>

\* a request whose permission fits the low word
CreateTokenStart(h, deviceID, name, permission, header) ==
  CreateTokenRequest(h, deviceID, name, 0, permission, header)

\* name length, tokens.FindDevice(request.DeviceID), the X-User-Token header
CreateTokenFind(h) ==
  /\ At(h, "CreateToken", "find")
  /\ IF ~(Len(task[h].name) >= 5) THEN Returns(h, "invalid-name") /\ Succeeds
     ELSE \/ /\ Succeeds
             /\ \E r \in FindDevice(task[h].id) :
                  IF r.err # Nil THEN Returns(h, ErrNotFound)
                  ELSE IF task[h].tok = "" THEN Returns(h, "invalid-token")
                  ELSE Goto(h, [task[h] EXCEPT !.pc = "auth", !.id = r.DeviceID])
          \/ /\ Fails
             /\ Returns(h, ErrNotFound)
  /\ UNCHANGED <<storeVars, issued, ops, notStore>>

\* fault: the outcome of the authorization is not looked at
CreateTokenAuthorizeAny(h) ==
  /\ At(h, "CreateToken", "auth")
  /\ \/ Succeeds
     \/ Fails
  /\ Goto(h, [task[h] EXCEPT !.pc = "cfind"])
  /\ UNCHANGED <<storeVars, issued, ops, notStore>>

\* tokens.AuthorizeToken(registration.DeviceID, token, admin)
CreateTokenAuthorize(h) ==
  /\ At(h, "CreateToken", "auth")
  /\ \/ /\ Succeeds
        /\ \E r \in FindDevice(task[h].id) :
             IF AuthorizeToken(r, task[h].tok, SecurityDeviceTokenPermissionAdmin)
               THEN Goto(h, [task[h] EXCEPT !.pc = "cfind"])
               ELSE Returns(h, "invalid-token")
     \/ /\ Fails
        /\ Returns(h, "invalid-token")
  /\ UNCHANGED <<storeVars, issued, ops, notStore>>

\* RedisRegistry.CreateToken: FindDevice(deviceID), then GenerateToken
registryCreateTokenFind(h) ==
  /\ At(h, "CreateToken", "cfind")
  /\ \/ /\ Succeeds
        /\ \E r \in FindDevice(task[h].id) :
             IF r.err # Nil THEN Returns(h, "server-error") /\ UNCHANGED issued
             ELSE \E raw \in Fresh(<<"t1", "t2">>) :
                    /\ issued' = issued \cup {raw}
                    /\ Goto(h, [task[h] EXCEPT !.pc = "lpush", !.key = raw])
     \/ /\ Fails
        /\ Returns(h, "server-error")
        /\ UNCHANGED issued
  /\ UNCHANGED <<storeVars, ops, notStore>>

\* LPUSH device-token-list:{deviceID} rawToken
registryCreateTokenLPush(h) ==
  /\ At(h, "CreateToken", "lpush")
  /\ \/ /\ Succeeds
        /\ tokenList' = LPush(tokenList, task[h].id, task[h].key)
        /\ Goto(h, [task[h] EXCEPT !.pc = "hmset"])
     \/ /\ Fails
        /\ UNCHANGED tokenList
        /\ Returns(h, "server-error")
  /\ UNCHANGED <<deviceRows, deviceIndex, feedbackList, allocRows, tokenRows, issued, ops, notStore>>

\* HMSET device-token:{raw} name permission id device
registryCreateTokenHMSet(h) ==
  /\ At(h, "CreateToken", "hmset")
  /\ \/ /\ Succeeds
        /\ tokenRows' = Put(tokenRows, task[h].key,
                            [id |-> TokenUUID(task[h].key), name |-> task[h].name,
                             device |-> task[h].id,
                             permission |-> FormatUint(task[h].hi, task[h].perm)])
        /\ Returns(h, Nil)
     \/ /\ Fails
        /\ UNCHANGED tokenRows
        /\ Returns(h, "server-error")
  /\ UNCHANGED <<deviceRows, deviceIndex, feedbackList, allocRows, tokenList, issued, ops, notStore>>

(***************************************************************************)
(* RedisRegistry.LogFeedback, called by POST /device-feedback handlers and *)
(* by the processor.  A message is [dev, n]: the deviceID of its           *)
(* authentication (NoAuth when it has none) and a number standing for its  *)
(* content.                                                                *)
(***************************************************************************)
NoAuth == "<nil>"

\* POST /device-feedback: a straight passthrough to registry.LogFeedback
LogFeedbackStart(h, dev) ==
  /\ msgSeq < MaxFeedback
  /\ Starts(h, [Idle EXCEPT !.op = "LogFeedback", !.pc = "find", !.id = dev, !.msg = msgSeq + 1])
  /\ msgSeq' = msgSeq + 1
  /\ UNCHANGED <<storeVars, issued, failures, streamVars, procVars, connVars, authCall>>

\* message.GetAuthentication(), FindDevice(auth.DeviceID)
LogFeedbackFind(c) ==
  /\ At(c, "LogFeedback", "find")
  /\ IF task[c].id = NoAuth THEN Returns(c, ErrBadInterchangeAuthentication) /\ Succeeds
     ELSE \/ /\ Succeeds
             /\ \E r \in FindDevice(task[c].id) :
                  IF r.err # Nil THEN Returns(c, r.err)
                  ELSE Goto(c, [task[c] EXCEPT !.pc = "llen", !.id = r.DeviceID])
          \/ /\ Fails
             /\ Returns(c, StoreError)
  /\ UNCHANGED <<storeVars, issued, ops, notStore>>

\* A stored feedback entry is the text form of a message.  The model keeps
\* the number of the message for its text; UnreadableEntry is a text that
\* proto.UnmarshalText rejects.
UnreadableEntry == 0 - 1000

ListFeedbackStart(h, id, count) ==
  /\ Starts(h, [Idle EXCEPT !.op = "ListFeedback", !.pc = "find", !.id = id, !.count = count])
  /\ UNCHANGED <<storeVars, issued, failures, notStore>>

\* FindDevice(id)
ListFeedbackFind(h) ==
  /\ At(h, "ListFeedback", "find")
  /\ \/ /\ Succeeds
        /\ \E r \in FindDevice(task[h].id) :
             IF r.err # Nil THEN Returns(h, r.err)
             ELSE Goto(h, [task[h] EXCEPT !.pc = "lrange", !.id = r.DeviceID])
     \/ /\ Fails
        /\ Returns(h, StoreError)
  /\ UNCHANGED <<storeVars, issued, ops, notStore>>

\* LRANGE device-feedback:{id} 0 count, then proto.UnmarshalText of each entry
ListFeedbackLRange(h) ==
  /\ At(h, "ListFeedback", "lrange")
  /\ \/ /\ Succeeds
        /\ LET list == LRange(ListOf(feedbackList, task[h].id), task[h].count)
           IN IF list = <<>> THEN ReturnsList(h, Nil, <<>>)
              ELSE IF UnreadableEntry \in Range(list) THEN Returns(h, ErrBadInterchangeData)
              ELSE ReturnsList(h, Nil, list)
     \/ /\ Fails
        /\ Returns(h, StoreError)
  /\ UNCHANGED <<storeVars, issued, ops, notStore>>

\* fault: a list of exactly RedisMaxFeedbackEntries entries is not trimmed
NeedsTrimAbove(count) == count > RedisMaxFeedbackEntries

\* the test that decides whether the list is trimmed before the push
NeedsTrim(count) == count >= RedisMaxFeedbackEntries

\* LLEN device-feedback:{id}
LogFeedbackLLen(c) ==
  /\ At(c, "LogFeedback", "llen")
  /\ \/ /\ Succeeds
        /\ LET count == Len(ListOf(feedbackList, task[c].id))
           IN Goto(c, [task[c] EXCEPT !.count = count,
                                      !.pc = IF NeedsTrim(count) THEN "trim" ELSE "push"])
     \/ /\ Fails
        /\ Returns(c, StoreError)
  /\ UNCHANGED <<storeVars, issued, ops, notStore>>

\* LTRIM device-feedback:{id} 0 RedisMaxFeedbackEntries-2
LogFeedbackTrim(c) ==
  /\ At(c, "LogFeedback", "trim")
  /\ \/ /\ Succeeds
        /\ feedbackList' = IF task[c].id \in DOMAIN feedbackList
                             THEN [feedbackList EXCEPT ![task[c].id] = LTrim(@, RedisMaxFeedbackEntries - 2)]
                             ELSE feedbackList
        /\ Goto(c, [task[c] EXCEPT !.pc = "push"])
     \/ /\ Fails
        /\ UNCHANGED feedbackList
        /\ Returns(c, StoreError)
  /\ UNCHANGED <<deviceRows, deviceIndex, allocRows, tokenRows, tokenList, issued, ops, notStore>>

\* LPUSH device-feedback:{id} text
LogFeedbackPush(c) ==
  /\ At(c, "LogFeedback", "push")
  /\ \/ /\ Succeeds
        /\ feedbackList' = LPush(feedbackList, task[c].id, task[c].msg)
        /\ Returns(c, Nil)
     \/ /\ Fails
        /\ UNCHANGED feedbackList
        /\ Returns(c, StoreError)
  /\ UNCHANGED <<deviceRows, deviceIndex, allocRows, tokenRows, tokenList, issued, ops, notStore>>

(***************************************************************************)
(* Device connections.                                                      *)
(***************************************************************************)
\* fault: a Send that writes its frame to the socket twice
SendTwice(c, n) == [delivered EXCEPT ![c] = Append(Append(@, n), n)]

\* fault: a Close that never reaches the socket
CloseLost(c) == closeCalls

\* StreamerConnection.Send: sign, marshal, write one frame to the socket
Send(c, n) == [delivered EXCEPT ![c] = Append(@, n)]

\* Connection.Close
Close(c) == [closeCalls EXCEPT ![c] = @ + 1]

(***************************************************************************)
(* Devices.UpdateShorthand (GET /devices/{uuid}/{color}) and the other     *)
(* producers of the streams.  A reader on a stream is [dev, n, err]: the   *)
(* deviceID its message is addressed to, its number, and the error its     *)
(* Read returns ("" for a well-formed reader).                             *)
(***************************************************************************)
\* runtime.Publish(DeviceControlChannelName, buffer): a send on the Commands
\* channel, which blocks while the channel is full
Publish(reader) ==
  /\ ~cmdClosed
  /\ Len(commands) < ChanCap
  /\ Len(published) < MaxCommands
  /\ commands' = Append(commands, [reader EXCEPT !.n = Len(published) + 1])
  /\ published' = Append(published, [reader EXCEPT !.n = Len(published) + 1])

\* registry.Find(query); an unknown device is answered with not-found
UpdateShorthand(h, query) ==
  /\ Len(published) < MaxCommands
  /\ \E r \in FindDevice(query) :
       IF r.err # Nil
         THEN Starts(h, Idle)
         ELSE Starts(h, [Idle EXCEPT !.op = "UpdateShorthand", !.pc = "publish", !.id = r.DeviceID])
  /\ UNCHANGED <<storeVars, issued, failures, notStore>>

\* fault: the handler publishes the message and also starts a Send of its own
\* on the device's connection
UpdateShorthandSends(h) ==
  /\ At(h, "UpdateShorthand", "publish")
  /\ Publish([dev |-> task[h].id, n |-> 0, err |-> ""])
  /\ Returns(h, Nil)
  /\ inSend' = [inSend EXCEPT ![task[h].id] = @ + 1]
  /\ UNCHANGED <<storeVars, issued, msgSeq, failures, ops, cmdClosed, registrations, regClosed,
                 feedbackCh, fbClosed, kill, procVars, closeCalls, delivered, authCall>>

\* the marshaled DeviceMessage addressed to details.DeviceID is published
UpdateShorthandPublish(h) ==
  /\ At(h, "UpdateShorthand", "publish")
  /\ Publish([dev |-> task[h].id, n |-> 0, err |-> ""])
  /\ Returns(h, Nil)
  /\ UNCHANGED <<storeVars, issued, msgSeq, failures, ops, cmdClosed, registrations, regClosed,
                 feedbackCh, fbClosed, kill, procVars, connVars, authCall>>

\* a reader whose Read fails is put on the Commands channel
PublishBadReader ==
  /\ Publish([dev |-> "", n |-> 0, err |-> "bad-read"])
  /\ UNCHANGED <<storeVars, issued, msgSeq, failures, taskVars, cmdClosed, registrations, regClosed,
                 feedbackCh, fbClosed, kill, procVars, connVars, authCall>>

\* a reader received from a device socket is put on the Feedback channel
PushFeedback(dev, err) ==
  /\ ~fbClosed
  /\ Len(feedbackCh) < ChanCap
  /\ msgSeq < MaxFeedback
  /\ msgSeq' = msgSeq + 1
  /\ feedbackCh' = Append(feedbackCh, [dev |-> dev, n |-> msgSeq + 1, err |-> err])
  /\ UNCHANGED <<storeVars, issued, failures, taskVars, commands, cmdClosed, registrations,
                 regClosed, fbClosed, kill, published, procVars, connVars, authCall>>

SendKill ==
  /\ kill = "idle"
  /\ kill' = "pending"
  /\ UNCHANGED <<storeVars, issued, msgSeq, failures, taskVars, commands, cmdClosed, registrations,
                 regClosed, feedbackCh, fbClosed, published, procVars, connVars, authCall>>

CloseCommands ==
  /\ ~cmdClosed
  /\ cmdClosed' = TRUE
  /\ UNCHANGED <<storeVars, issued, msgSeq, failures, taskVars, commands, registrations,
                 regClosed, feedbackCh, fbClosed, kill, published, procVars, connVars, authCall>>

CloseRegistrations ==
  /\ ~regClosed
  /\ regClosed' = TRUE
  /\ UNCHANGED <<storeVars, issued, msgSeq, failures, taskVars, commands, cmdClosed, registrations,
                 feedbackCh, fbClosed, kill, published, procVars, connVars, authCall>>

CloseFeedback ==
  /\ ~fbClosed
  /\ fbClosed' = TRUE
  /\ UNCHANGED <<storeVars, issued, msgSeq, failures, taskVars, commands, cmdClosed, registrations,
                 regClosed, feedbackCh, kill, published, procVars, connVars, authCall>>

(***************************************************************************)
(* The device control processor: one task, a select over the three         *)
(* streams and the kill switch, one message handled at a time.             *)
(***************************************************************************)
Selecting == [at |-> "select", conn |-> "", n |-> 0]

\* fault: the processor goes on selecting after it has entered Draining
AtSelectAnyState == procPC.at = "select"

AtSelect == procState = "Running" /\ procPC.at = "select"

\* the pooled connection whose GetID() is the device id, if any
Lookup(dev) == {i \in 1..Len(pool) : pool[i] = dev}

EnterDraining ==
  /\ procState' = "Draining"
  /\ UNCHANGED <<procPC, pool, drained, waitReleased, log>>

\* fault: the connection is pooled whatever FindDevice answers
ProcRegistrationPoolsAll ==
  /\ AtSelect
  /\ registrations # <<>>
  /\ registrations' = Tail(registrations)
  /\ \/ Succeeds
     \/ Fails
  /\ pool' = Append(pool, Head(registrations))
  /\ UNCHANGED <<log, closeCalls>>
  /\ UNCHANGED <<storeVars, issued, msgSeq, taskVars, commands, cmdClosed, regClosed, feedbackCh,
                 fbClosed, kill, published, procState, procPC, drained, waitReleased,
                 inSend, delivered, authCall>>

\* a connection arrives on the Registrations stream: FindDevice(conn.GetID()),
\* pooled on success, logged and closed on failure
ProcRegistration ==
  /\ AtSelect
  /\ registrations # <<>>
  /\ registrations' = Tail(registrations)
  /\ \/ /\ Succeeds
        /\ \E r \in FindDevice(Head(registrations)) :
             IF r.err = Nil
               THEN /\ pool' = Append(pool, Head(registrations))
                    /\ UNCHANGED <<log, closeCalls>>
               ELSE /\ log' = log \cup {r.err}
                    /\ closeCalls' = Close(Head(registrations))
                    /\ UNCHANGED pool
     \/ /\ Fails
        /\ log' = log \cup {StoreError}
        /\ closeCalls' = Close(Head(registrations))
        /\ UNCHANGED pool
  /\ UNCHANGED <<storeVars, issued, msgSeq, taskVars, commands, cmdClosed, regClosed, feedbackCh,
                 fbClosed, kill, published, procState, procPC, drained, waitReleased,
                 inSend, delivered, authCall>>

\* fault: a reader that cannot be read stops the processor, and its error is
\* not logged
ProcCommandStops ==
  /\ AtSelect
  /\ commands # <<>>
  /\ commands' = Tail(commands)
  /\ LET r == Head(commands)
     IN IF r.err # ""
          THEN /\ procState' = "Draining"
               /\ UNCHANGED <<procPC, inSend, log>>
        ELSE IF Lookup(r.dev) = {}
          THEN /\ log' = log \cup {ErrNotFound}
               /\ UNCHANGED <<procPC, inSend, procState>>
        ELSE /\ procPC' = [at |-> "send", conn |-> r.dev, n |-> r.n]
             /\ inSend' = [inSend EXCEPT ![r.dev] = @ + 1]
             /\ UNCHANGED <<log, procState>>
  /\ UNCHANGED <<storeVars, issued, msgSeq, failures, taskVars, cmdClosed, registrations, regClosed,
                 feedbackCh, fbClosed, kill, published, pool, drained, waitReleased,
                 closeCalls, delivered, authCall>>

\* fault: the message is sent on the first connection of the pool, whatever
\* device it is addressed to
ProcCommandFirstConn ==
  /\ AtSelect
  /\ commands # <<>>
  /\ commands' = Tail(commands)
  /\ LET r == Head(commands)
     IN IF r.err # ""
          THEN /\ log' = log \cup {r.err}
               /\ UNCHANGED <<procPC, inSend>>
        ELSE IF pool = <<>>
          THEN /\ log' = log \cup {ErrNotFound}
               /\ UNCHANGED <<procPC, inSend>>
        ELSE /\ procPC' = [at |-> "send", conn |-> pool[1], n |-> r.n]
             /\ inSend' = [inSend EXCEPT ![pool[1]] = @ + 1]
             /\ UNCHANGED log
  /\ UNCHANGED <<storeVars, issued, msgSeq, failures, taskVars, cmdClosed, registrations, regClosed,
                 feedbackCh, fbClosed, kill, published, procState, pool, drained, waitReleased,
                 closeCalls, delivered, authCall>>

\* a reader arrives on the Commands stream: read, unmarshal, pool lookup, and
\* conn.Send(msg) begins; every error is logged and nothing else changes
ProcCommand ==
  /\ AtSelect
  /\ commands # <<>>
  /\ commands' = Tail(commands)
  /\ LET r == Head(commands)
     IN IF r.err # ""
          THEN /\ log' = log \cup {r.err}
               /\ UNCHANGED <<procPC, inSend>>
        ELSE IF Lookup(r.dev) = {}
          THEN /\ log' = log \cup {ErrNotFound}
               /\ UNCHANGED <<procPC, inSend>>
        ELSE /\ procPC' = [at |-> "send", conn |-> r.dev, n |-> r.n]
             /\ inSend' = [inSend EXCEPT ![r.dev] = @ + 1]
             /\ UNCHANGED log
  /\ UNCHANGED <<storeVars, issued, msgSeq, failures, taskVars, cmdClosed, registrations, regClosed,
                 feedbackCh, fbClosed, kill, published, procState, pool, drained, waitReleased,
                 closeCalls, delivered, authCall>>

\* fault: a connection whose Send fails is closed and taken out of the pool
ProcSendDoneEvicts ==
  /\ procPC.at = "send"
  /\ procPC' = Selecting
  /\ inSend' = [inSend EXCEPT ![procPC.conn] = @ - 1]
  /\ \/ /\ delivered' = Send(procPC.conn, procPC.n)
        /\ UNCHANGED <<log, pool, closeCalls>>
     \/ /\ log' = log \cup {"send-error"}
        /\ pool' = SelectSeq(pool, LAMBDA c : c # procPC.conn)
        /\ closeCalls' = Close(procPC.conn)
        /\ UNCHANGED delivered
  /\ UNCHANGED <<storeVars, issued, msgSeq, failures, taskVars, streamVars, procState, drained,
                 waitReleased, authCall>>

\* conn.Send(msg) returns: the frame was written, or an error is logged
ProcSendDone ==
  /\ procPC.at = "send"
  /\ procPC' = Selecting
  /\ inSend' = [inSend EXCEPT ![procPC.conn] = @ - 1]
  /\ \/ /\ delivered' = Send(procPC.conn, procPC.n)
        /\ UNCHANGED log
     \/ /\ log' = log \cup {"send-error"}
        /\ UNCHANGED delivered
  /\ UNCHANGED <<storeVars, issued, msgSeq, failures, taskVars, streamVars, procState, pool, drained,
                 waitReleased, closeCalls, authCall>>

\* a reader arrives on the Feedback stream: read, unmarshal, and
\* registry.LogFeedback(msg) begins on the processor task
ProcFeedback ==
  /\ AtSelect
  /\ feedbackCh # <<>>
  /\ feedbackCh' = Tail(feedbackCh)
  /\ LET r == Head(feedbackCh)
     IN IF r.err # ""
          THEN /\ log' = log \cup {r.err}
               /\ UNCHANGED <<procPC, task>>
          ELSE /\ procPC' = [at |-> "feedback", conn |-> "", n |-> r.n]
               /\ task' = [task EXCEPT ![Processor] =
                             [Idle EXCEPT !.op = "LogFeedback", !.pc = "find", !.id = r.dev, !.msg = r.n]]
               /\ UNCHANGED log
  /\ UNCHANGED <<storeVars, issued, msgSeq, failures, ret, ops, commands, cmdClosed, registrations,
                 regClosed, fbClosed, kill, published, procState, pool, drained, waitReleased,
                 connVars, authCall>>

\* fault: an error of registry.LogFeedback stops the processor
ProcFeedbackDoneStops ==
  /\ procPC.at = "feedback"
  /\ IsIdle(Processor)
  /\ procPC' = Selecting
  /\ log' = IF ret[Processor].res = Nil THEN log ELSE log \cup {ret[Processor].res}
  /\ procState' = IF ret[Processor].res = Nil THEN procState ELSE "Draining"
  /\ UNCHANGED <<storeVars, issued, msgSeq, failures, taskVars, streamVars, pool, drained,
                 waitReleased, connVars, authCall>>

\* registry.LogFeedback returned to the processor: its error is logged
ProcFeedbackDone ==
  /\ procPC.at = "feedback"
  /\ IsIdle(Processor)
  /\ procPC' = Selecting
  /\ log' = IF ret[Processor].res = Nil THEN log ELSE log \cup {ret[Processor].res}
  /\ UNCHANGED <<storeVars, issued, msgSeq, failures, taskVars, streamVars, procState, pool, drained,
                 waitReleased, connVars, authCall>>

\* fault: the closed Feedback stream is taken for a terminator
ProcFeedbackClosedDrains ==
  /\ AtSelect
  /\ fbClosed
  /\ feedbackCh = <<>>
  /\ EnterDraining
  /\ UNCHANGED <<storeVars, issued, msgSeq, failures, taskVars, streamVars, connVars, authCall>>

\* the Feedback stream is closed: the processor keeps running
ProcFeedbackClosed ==
  /\ AtSelect
  /\ fbClosed
  /\ feedbackCh = <<>>
  /\ UNCHANGED vars

\* the kill switch is received
ProcKill ==
  /\ AtSelect
  /\ kill = "pending"
  /\ kill' = "received"
  /\ EnterDraining
  /\ UNCHANGED <<storeVars, issued, msgSeq, failures, taskVars, commands, cmdClosed, registrations,
                 regClosed, feedbackCh, fbClosed, published, connVars, authCall>>

\* fault: the closure of the Commands stream is seen before the readers that
\* are still on it
ProcCommandsClosedEarly ==
  /\ AtSelect
  /\ cmdClosed
  /\ EnterDraining
  /\ UNCHANGED <<storeVars, issued, msgSeq, failures, taskVars, streamVars, connVars, authCall>>

\* fault: the closed Commands stream releases the wait handle without a drain
ProcCommandsClosedSkipsDrain ==
  /\ AtSelect
  /\ cmdClosed
  /\ commands = <<>>
  /\ procState' = "Terminated"
  /\ waitReleased' = TRUE
  /\ UNCHANGED <<storeVars, issued, msgSeq, failures, taskVars, streamVars, procPC, pool, drained,
                 log, connVars, authCall>>

\* the Commands stream is closed and holds nothing more
ProcCommandsClosed ==
  /\ AtSelect
  /\ cmdClosed
  /\ commands = <<>>
  /\ EnterDraining
  /\ UNCHANGED <<storeVars, issued, msgSeq, failures, taskVars, streamVars, connVars, authCall>>

\* the Registrations stream is closed and holds nothing more
ProcRegistrationsClosed ==
  /\ AtSelect
  /\ regClosed
  /\ registrations = <<>>
  /\ EnterDraining
  /\ UNCHANGED <<storeVars, issued, msgSeq, failures, taskVars, streamVars, connVars, authCall>>

\* draining: Close() the next connection of the pool
ProcClose ==
  /\ procState = "Draining"
  /\ drained < Len(pool)
  /\ closeCalls' = Close(pool[drained + 1])
  /\ drained' = drained + 1
  /\ UNCHANGED <<storeVars, issued, msgSeq, failures, taskVars, streamVars, procState, procPC, pool,
                 waitReleased, log, inSend, delivered, authCall>>

\* draining is over: wg.Done()
ProcTerminate ==
  /\ procState = "Draining"
  /\ drained = Len(pool)
  /\ procState' = "Terminated"
  /\ waitReleased' = TRUE
  /\ UNCHANGED <<storeVars, issued, msgSeq, failures, taskVars, streamVars, procPC, pool, drained,
                 log, connVars, authCall>>

(***************************************************************************)
(* Initial states and specifications.                                       *)
(***************************************************************************)
Row(id, name, secret) == [uuid |-> id, name |-> name, secret |-> secret]

\* everything but the store, the issued values, the failures and the pool
InitRest ==
  /\ msgSeq = 0
  /\ task = [c \in Callers |-> Idle]
  /\ ret = [c \in Callers |-> NoRet]
  /\ ops = 0
  /\ commands = <<>> /\ cmdClosed = FALSE
  /\ registrations = <<>> /\ regClosed = FALSE
  /\ feedbackCh = <<>> /\ fbClosed = FALSE
  /\ kill = "idle"
  /\ published = <<>>
  /\ procState = "Running"
  /\ procPC = Selecting
  /\ drained = 0
  /\ waitReleased = FALSE
  /\ log = {}
  /\ closeCalls = [c \in DeviceIDs |-> 0]
  /\ inSend = [c \in DeviceIDs |-> 0]
  /\ delivered = [c \in DeviceIDs |-> <<>>]
  /\ authCall = [impl |-> "", device |-> "", token |-> "", mask |-> 0, result |-> FALSE]

\* the pools the processor may be started with
InitPools == {<<>>, <<"d1">>, <<"d1", "d2">>, <<"d2", "d1">>}

\* The processor is started with any pool of connections of registered devices;
\* d1 and d2 are registered, a third device is preregistered.
InitProc ==
  /\ deviceRows = ("d1" :> Row("d1", "lamp", SecretA)) @@ ("d2" :> Row("d2", "desk", SecretB))
  /\ deviceIndex = <<"d2", "d1">>
  /\ feedbackList = <<>>
  /\ allocRows = ("a1" :> [name |-> "bulb", secret |-> SecretC])
  /\ tokenRows = <<>>
  /\ tokenList = <<>>
  /\ issued = {"d1", "d2", "a1"}
  /\ pool \in InitPools
  /\ failures = MaxFailures
  /\ InitRest

\* the processor's steps on the Registrations and Commands streams, the kill
\* switch and the drain
ProcessorStep ==
  \/ ProcRegistration
  \/ ProcCommand
  \/ ProcSendDone
  \/ ProcKill
  \/ ProcCommandsClosed
  \/ ProcRegistrationsClosed
  \/ ProcClose
  \/ ProcTerminate

\* the processor's steps on the Feedback stream
ProcessorFeedbackStep ==
  \/ ProcFeedback
  \/ ProcFeedbackDone
  \/ ProcFeedbackClosed
  \/ LogFeedbackFind(Processor)
  \/ LogFeedbackLLen(Processor)
  \/ LogFeedbackTrim(Processor)
  \/ LogFeedbackPush(Processor)

RegisterStep(h) ==
  \/ FillKeys(h)
  \/ FillHGet(h)
  \/ fillLoad(h)
  \/ fillLPush(h)
  \/ fillHMSet(h)
  \/ fillDel(h)
  \/ RegisterPush(h)

\* the handlers that run beside the processor
ProcHandlers == {"h1"}

\* the process exits once the wait handle is released
Live == ~waitReleased

NextProc ==
  \/ ProcessorStep
  \/ Live /\ \E h \in ProcHandlers : \E q \in {"d1", "d2"} : UpdateShorthand(h, q)
  \/ Live /\ \E h \in ProcHandlers : UpdateShorthandPublish(h)
  \/ Live /\ \E h \in ProcHandlers : RegisterStart(h, SecretC)
  \/ Live /\ \E h \in ProcHandlers : RegisterStep(h)
  \/ Live /\ PublishBadReader
  \/ Live /\ SendKill
  \/ Live /\ CloseCommands
  \/ Live /\ CloseRegistrations

SpecProc == InitProc /\ [][NextProc]_vars

\* The processor with all three streams in use: commands for the pooled
\* device, a registering device, feedback readers (well-formed, unreadable,
\* without authentication), the kill switch and the closure of each stream.
\* The feedback list of the pooled device is full.
InitStreams ==
  /\ deviceRows = ("d1" :> Row("d1", "lamp", SecretA)) @@ ("d2" :> Row("d2", "desk", SecretB))
  /\ deviceIndex = <<"d2", "d1">>
  /\ feedbackList = ("d1" :> [i \in 1..RedisMaxFeedbackEntries |-> 0])
  /\ allocRows = ("a1" :> [name |-> "bulb", secret |-> SecretC])
  /\ tokenRows = <<>>
  /\ tokenList = <<>>
  /\ issued = {"d1", "d2", "a1"}
  /\ pool = <<"d1">>
  /\ failures = MaxFailures
  /\ InitRest

FeedbackReaders ==
  {[dev |-> "d1", err |-> ""], [dev |-> "d1", err |-> "bad-read"], [dev |-> NoAuth, err |-> ""]}

NextStreams ==
  \/ ProcessorStep
  \/ ProcessorFeedbackStep
  \/ Live /\ \E h \in ProcHandlers : UpdateShorthand(h, "d1")
  \/ Live /\ \E h \in ProcHandlers : UpdateShorthandPublish(h)
  \/ Live /\ \E h \in ProcHandlers : RegisterStart(h, SecretC)
  \/ Live /\ \E h \in ProcHandlers : RegisterStep(h)
  \/ Live /\ \E r \in FeedbackReaders : PushFeedback(r.dev, r.err)
  \/ Live /\ SendKill
  \/ Live /\ CloseCommands
  \/ Live /\ CloseRegistrations
  \/ Live /\ CloseFeedback

SpecStreams == InitStreams /\ [][NextStreams]_vars

\* the processor is a goroutine of its own: the scheduler runs it whenever it
\* can take a step
SpecProcFair == SpecProc /\ WF_vars(ProcessorStep)

(***************************************************************************)
(* AuthorizeToken as a function of the store: the initial states draw the  *)
(* permissions stored for two tokens, the actions call the two definitions *)
(* of RedisRegistry.AuthorizeToken and record call and result.             *)
(***************************************************************************)
Permissions == 0..SecurityDeviceTokenPermissionAll

TokenRow(raw, dev, p) ==
  [id |-> TokenUUID(raw), name |-> "guest", device |-> dev, permission |-> FormatBase2(p)]

InitAuth ==
  /\ deviceRows = ("d1" :> Row("d1", "lamp", SecretA)) @@ ("d2" :> Row("d2", "desk", SecretB))
  /\ deviceIndex = <<"d2", "d1">>
  /\ feedbackList = <<>>
  /\ allocRows = <<>>
  /\ \E p1 \in Permissions, p2 \in Permissions :
       tokenRows = ("t1" :> TokenRow("t1", "d1", p1)) @@ ("t2" :> TokenRow("t2", "d2", p2))
  /\ tokenList = ("d1" :> <<"t1">>) @@ ("d2" :> <<"t2">>)
  /\ issued = {"d1", "d2", "t1", "t2"}
  /\ pool = <<>>
  /\ failures = MaxFailures
  /\ InitRest

\* the device queries and tokens the calls are made with: ids and names of
\* registered and unknown devices, shared secrets, stored and unknown tokens
AuthQueries == {"d1", "d2", "d3", "lamp"}
AuthTokens == {"t1", "t2", "t9", SecretA, SecretB}

\* one call is observed in a behaviour
CallAuthorizeToken(d, t, m) ==
  /\ authCall.impl = ""
  /\ \E registration \in FindDevice(d) :
       authCall' = [impl |-> "first", device |-> d, token |-> t, mask |-> m,
                    result |-> AuthorizeToken(registration, t, m)]
  /\ UNCHANGED <<storeVars, issued, msgSeq, failures, taskVars, streamVars, procVars, connVars>>

CallAuthorizeTokenSecond(d, t, m) ==
  /\ authCall.impl = ""
  /\ \E registration \in FindDevice(d) :
       authCall' = [impl |-> "second", device |-> d, token |-> t, mask |-> m,
                    result |-> AuthorizeTokenSecond(registration, t, m)]
  /\ UNCHANGED <<storeVars, issued, msgSeq, failures, taskVars, streamVars, procVars, connVars>>

NextAuth ==
  \/ \E d \in AuthQueries, t \in AuthTokens, m \in Permissions : CallAuthorizeToken(d, t, m)
  \/ \E d \in AuthQueries, t \in AuthTokens, m \in Permissions : CallAuthorizeTokenSecond(d, t, m)

SpecAuth == InitAuth /\ [][NextAuth]_vars

(***************************************************************************)
(* The feedback ring: devices push feedback through the processor while    *)
(* HTTP clients post feedback, for a device whose ring is empty, nearly    *)
(* full or full.                                                           *)
(***************************************************************************)
InitRingSizes == {0, RedisMaxFeedbackEntries - 2, RedisMaxFeedbackEntries - 1, RedisMaxFeedbackEntries}

InitFeedback ==
  /\ deviceRows = ("d1" :> Row("d1", "lamp", SecretA)) @@ ("d2" :> Row("d2", "desk", SecretB))
  /\ deviceIndex = <<"d2", "d1">>
  /\ \E n \in InitRingSizes :
       feedbackList = IF n = 0 THEN <<>> ELSE ("d1" :> [i \in 1..n |-> 0])
  /\ allocRows = <<>>
  /\ tokenRows = <<>>
  /\ tokenList = <<>>
  /\ issued = {"d1", "d2"}
  /\ pool = <<"d1">>
  /\ failures = 0
  /\ InitRest

NextFeedback ==
  \/ ProcessorFeedbackStep
  \/ \E dev \in {"d1", NoAuth}, err \in {"", "bad-read"} : PushFeedback(dev, err)
  \/ CloseFeedback
  \/ \E h \in Handlers : \E dev \in {"d1", "d3"} : LogFeedbackStart(h, dev)
  \/ \E h \in Handlers : LogFeedbackFind(h)
  \/ \E h \in Handlers : LogFeedbackLLen(h)
  \/ \E h \in Handlers : LogFeedbackTrim(h)
  \/ \E h \in Handlers : LogFeedbackPush(h)

SpecFeedback == InitFeedback /\ [][NextFeedback]_vars

(***************************************************************************)
(* The registry under concurrent HTTP handlers: preregistration,           *)
(* registration, removal and token creation, one redis command at a time,  *)
(* with a store that may fail.  The processor takes the registered         *)
(* connections off the Registrations stream.                               *)
(***************************************************************************)
\* the token sets the device starts with
InitTokenSets == {{}, {"t1"}}

InitRegistry ==
  /\ deviceRows = ("d1" :> Row("d1", "lamp", SecretA))
  /\ deviceIndex = <<"d1">>
  /\ feedbackList = <<>>
  /\ allocRows = ("a1" :> [name |-> "bulb", secret |-> SecretC])
  /\ \E ts \in InitTokenSets :
       /\ tokenRows = [t \in ts |-> TokenRow(t, "d1", SecurityDeviceTokenPermissionViewer)]
       /\ tokenList = IF ts = {} THEN <<>> ELSE ("d1" :> <<"t1">>)
       /\ issued = {"d1", "a1"} \cup ts
  /\ pool = <<>>
  /\ failures = 0
  /\ InitRest

PreregisterStep(h) ==
  \/ PreregisterFind(h)
  \/ AllocateRegistration(h)

RemoveDeviceStep(h) ==
  \/ RemoveDelRow(h)
  \/ RemoveDelFeedback(h)
  \/ RemoveLRem(h)
  \/ RemoveLRange(h)
  \/ RemoveDelToken(h)
  \/ RemoveFinish(h)

CreateTokenStep(h) ==
  \/ CreateTokenFind(h)
  \/ CreateTokenAuthorize(h)
  \/ registryCreateTokenFind(h)
  \/ registryCreateTokenLPush(h)
  \/ registryCreateTokenHMSet(h)

NextRegistry ==
  \/ \E h \in Handlers : \E name \in {"bulb", "lamp"} : PreregisterStart(h, name, SecretB)
  \/ \E h \in Handlers : PreregisterStep(h)
  \/ \E h \in Handlers : \E secret \in {SecretB, SecretC} : RegisterStart(h, secret)
  \/ \E h \in Handlers : RegisterStep(h)
  \/ \E h \in Handlers : \E id \in DOMAIN deviceRows : RemoveDeviceStart(h, id)
  \/ \E h \in Handlers : RemoveDeviceStep(h)
  \/ \E h \in Handlers :
       CreateTokenStart(h, "d1", "guest", SecurityDeviceTokenPermissionController, SecretA)
  \/ \E h \in Handlers : CreateTokenStep(h)
  \/ ProcRegistration

SpecRegistry == InitRegistry /\ [][NextRegistry]_vars

(***************************************************************************)
(* POST /device-tokens under concurrent handlers: requests with and        *)
(* without a header, with the device's shared secret and with a token of   *)
(* the device, while the device may be removed.                            *)
(***************************************************************************)
TokenHeaders == {"", SecretA, "t1"}
TokenRequestPermissions == {0, SecurityDeviceTokenPermissionController, 8}

InitTokens ==
  /\ deviceRows = ("d1" :> Row("d1", "lamp", SecretA))
  /\ deviceIndex = <<"d1">>
  /\ feedbackList = <<>>
  /\ allocRows = <<>>
  /\ \E p \in {SecurityDeviceTokenPermissionViewer, SecurityDeviceTokenPermissionAdmin} :
       tokenRows = ("t1" :> TokenRow("t1", "d1", p))
  /\ tokenList = ("d1" :> <<"t1">>)
  /\ issued = {"d1", "t1"}
  /\ pool = <<>>
  /\ failures = 0
  /\ InitRest

NextTokens ==
  \/ \E h \in Handlers, name \in {"guest", "gst"},
        permission \in TokenRequestPermissions, header \in TokenHeaders :
          CreateTokenStart(h, "d1", name, permission, header)
  \/ \E h \in Handlers : CreateTokenStep(h)
  \/ \E h \in Handlers : \E id \in DOMAIN deviceRows : RemoveDeviceStart(h, id)
  \/ \E h \in Handlers : RemoveDeviceStep(h)

SpecTokens == InitTokens /\ [][NextTokens]_vars

\* RedisRegistry.AllocateRegistration called with names and secrets on both
\* sides of the minimum sizes, while devices fill the allocations
ShortSecret == "3082"

NextAllocate ==
  \/ \E h \in Handlers, name \in {"bulb", "tv"}, secret \in {SecretB, ShortSecret} :
       AllocateStart(h, name, secret)
  \/ \E h \in Handlers : AllocateRegistration(h)
  \/ \E h \in Handlers : \E secret \in {SecretB, SecretC} : RegisterStart(h, secret)
  \/ \E h \in Handlers : RegisterStep(h)
  \/ ProcRegistration

SpecAllocate == InitRegistry /\ [][NextAllocate]_vars

(***************************************************************************)
(* RemoveDevice, in both definitions of the file, of a device with zero,   *)
(* one or two tokens and a feedback list, with a store that may fail.      *)
(***************************************************************************)
InitRemoveTokens == {<<>>, <<"t1">>, <<"t2", "t1">>}

InitRemove ==
  /\ deviceRows = ("d1" :> Row("d1", "lamp", SecretA))
  /\ deviceIndex = <<"d1">>
  /\ feedbackList = ("d1" :> <<0>>)
  /\ allocRows = <<>>
  /\ \E ts \in InitRemoveTokens :
       /\ tokenRows = [t \in Range(ts) |-> TokenRow(t, "d1", SecurityDeviceTokenPermissionViewer)]
       /\ tokenList = IF ts = <<>> THEN <<>> ELSE ("d1" :> ts)
  /\ issued = {"d1", "t1", "t2"}
  /\ pool = <<>>
  /\ failures = 0
  /\ InitRest

NextRemove ==
  \/ \E h \in Handlers : RemoveDeviceStart(h, "d1")
  \/ \E h \in Handlers : RemoveDeviceSecondStart(h, "d1")
  \/ \E h \in Handlers : RemoveDeviceStep(h)
  \/ \E h \in Handlers : RemoveLRemSecond(h)

SpecRemove == InitRemove /\ [][NextRemove]_vars

(***************************************************************************)
(* ListRegistrations, in both definitions of the file, while devices are   *)
(* removed, with a store that may fail.                                    *)
(***************************************************************************)
InitList ==
  /\ deviceRows = ("d1" :> Row("d1", "lamp", SecretA)) @@ ("d2" :> Row("d2", "desk", SecretB))
  /\ deviceIndex = <<"d2", "d1">>
  /\ feedbackList = <<>>
  /\ allocRows = <<>>
  /\ tokenRows = ("t1" :> TokenRow("t1", "d1", SecurityDeviceTokenPermissionViewer))
  /\ tokenList = ("d1" :> <<"t1">>)
  /\ issued = {"d1", "d2", "t1"}
  /\ pool = <<>>
  /\ failures = 0
  /\ InitRest

ListRegistrationsStep(h) ==
  \/ ListRegistrationsLRange(h)
  \/ ListRegistrationsLoad(h)
  \/ ListRegistrationsReturn(h)

NextList ==
  \/ \E h \in Handlers, second \in BOOLEAN : ListRegistrationsStart(h, second)
  \/ \E h \in Handlers : ListRegistrationsStep(h)
  \/ \E h \in Handlers : \E id \in DOMAIN deviceRows : RemoveDeviceStart(h, id)
  \/ \E h \in Handlers : RemoveDeviceStep(h)

SpecList == InitList /\ [][NextList]_vars

(***************************************************************************)
(* ListTokens of a device whose token list has two entries, each with a    *)
(* well-formed row, with a row whose permission has 33 bits (written by    *)
(* CreateToken for a permission of 2^32 + 1) or with no row (CreateToken's *)
(* HMSET failed after its LPUSH), while the device may be removed.         *)
(***************************************************************************)
OverflowPermission == <<"1">> \o [i \in 1..31 |-> "0"] \o <<"1">>

TokenRowKinds == {"row", "overflow", "none"}

KindRow(raw, kind) ==
  IF kind = "row" THEN TokenRow(raw, "d1", SecurityDeviceTokenPermissionController)
  ELSE [TokenRow(raw, "d1", SecurityDeviceTokenPermissionViewer) EXCEPT
          !.permission = OverflowPermission]

InitListTokens ==
  /\ deviceRows = ("d1" :> Row("d1", "lamp", SecretA))
  /\ deviceIndex = <<"d1">>
  /\ feedbackList = <<>>
  /\ allocRows = <<>>
  /\ \E k1 \in TokenRowKinds, k2 \in TokenRowKinds :
       tokenRows = [t \in {x \in {"t1", "t2"} : (IF x = "t1" THEN k1 ELSE k2) # "none"} |->
                      KindRow(t, IF t = "t1" THEN k1 ELSE k2)]
  /\ tokenList = ("d1" :> <<"t2", "t1">>)
  /\ issued = {"d1", "t1", "t2"}
  /\ pool = <<>>
  /\ failures = 0
  /\ InitRest

ListTokensStep(h) ==
  \/ ListTokensFind(h)
  \/ ListTokensLRange(h)
  \/ ListTokensLoad(h)
  \/ ListTokensReturn(h)

NextListTokens ==
  \/ \E h \in Handlers : \E query \in {"d1", "lamp"} : ListTokensStart(h, query)
  \/ \E h \in Handlers : ListTokensStep(h)
  \/ \E h \in Handlers : \E id \in DOMAIN deviceRows : RemoveDeviceStart(h, id)
  \/ \E h \in Handlers : RemoveDeviceStep(h)

SpecListTokens == InitListTokens /\ [][NextListTokens]_vars

(***************************************************************************)
(* POST /device-registrations with names and shared secrets on both sides  *)
(* of the handler's and of the registry's validation.                      *)
(***************************************************************************)
PreregisterNames == {"bulb", "tv", "x"}
PreregisterSecrets == {SecretB, ShortSecret, ""}

NextPreregister ==
  \/ \E h \in Handlers, name \in PreregisterNames, secret \in PreregisterSecrets :
       PreregisterStart(h, name, secret)
  \/ \E h \in Handlers : PreregisterStep(h)

SpecPreregister == InitRegistry /\ [][NextPreregister]_vars

(***************************************************************************)
(* Devices register and are removed while the processor takes their        *)
(* connections off the Registrations stream, with a store that may fail.   *)
(***************************************************************************)
NextPooling ==
  \/ \E h \in Handlers : \E secret \in {SecretB, SecretC} : RegisterStart(h, secret)
  \/ \E h \in Handlers : RegisterStep(h)
  \/ \E h \in Handlers : \E id \in DOMAIN deviceRows : RemoveDeviceStart(h, id)
  \/ \E h \in Handlers : RemoveDeviceStep(h)
  \/ ProcRegistration

SpecPooling == InitRegistry /\ [][NextPooling]_vars

\* The feedback list of one device under LogFeedback and ListFeedback.  The
\* entries stored before the run are numbered below zero, the older the
\* smaller, so that every entry of a list is told from the others.
OldRing(n) == [i \in 1..n |-> 0 - i]

InitRings == {<<>>, <<0 - 1, UnreadableEntry>>, OldRing(RedisMaxFeedbackEntries - 1),
              OldRing(RedisMaxFeedbackEntries)}

FeedbackCounts == {0, 2}

InitRing ==
  /\ deviceRows = ("d1" :> Row("d1", "lamp", SecretA)) @@ ("d2" :> Row("d2", "desk", SecretB))
  /\ deviceIndex = <<"d2", "d1">>
  /\ \E ring \in InitRings :
       feedbackList = IF ring = <<>> THEN <<>> ELSE ("d1" :> ring)
  /\ allocRows = <<>>
  /\ tokenRows = <<>>
  /\ tokenList = <<>>
  /\ issued = {"d1", "d2"}
  /\ pool = <<>>
  /\ failures = 0
  /\ InitRest

NextRing ==
  \/ \E h \in Handlers : \E dev \in {"d1", "d3"} : LogFeedbackStart(h, dev)
  \/ \E h \in Handlers : LogFeedbackFind(h)
  \/ \E h \in Handlers : LogFeedbackLLen(h)
  \/ \E h \in Handlers : LogFeedbackTrim(h)
  \/ \E h \in Handlers : LogFeedbackPush(h)
  \/ \E h \in Handlers : \E dev \in {"d1", "d3"}, count \in FeedbackCounts :
       ListFeedbackStart(h, dev, count)
  \/ \E h \in Handlers : ListFeedbackFind(h)
  \/ \E h \in Handlers : ListFeedbackLRange(h)

SpecRing == InitRing /\ [][NextRing]_vars

\* POST /device-tokens alone, authorized by the shared secret of the device,
\* for permissions inside and outside the three known bits and beyond 32
\* bits (WidePermissionWords * 2^WordBits is 2^32).
WidePermissionWords == 4

TokenRequestWords == {0, WidePermissionWords}

TokenRequestLowBits == {0, SecurityDeviceTokenPermissionViewer, SecurityDeviceTokenPermissionAll, 9}

InitRoundTrip ==
  /\ deviceRows = ("d1" :> Row("d1", "lamp", SecretA))
  /\ deviceIndex = <<"d1">>
  /\ feedbackList = <<>>
  /\ allocRows = <<>>
  /\ tokenRows = <<>>
  /\ tokenList = <<>>
  /\ issued = {"d1"}
  /\ pool = <<>>
  /\ failures = 0
  /\ InitRest

NextRoundTrip ==
  \/ \E h \in Handlers, deviceID \in {"d1", "d2"}, hi \in TokenRequestWords,
        permission \in TokenRequestLowBits, header \in {"", SecretA} :
          CreateTokenRequest(h, deviceID, "guest", hi, permission, header)
  \/ \E h \in Handlers : CreateTokenStep(h)

SpecRoundTrip == InitRoundTrip /\ [][NextRoundTrip]_vars

\* POST /register alone: devices that present the secret of the pending
\* allocation, a secret that no allocation holds and a header that is no
\* key, with a store that may fail, and the processor receiving.
BadDeviceKey == "zz"

RegisterHeaders == {SecretC, SecretB, BadDeviceKey}

NextRegister ==
  \/ \E h \in Handlers : \E secret \in RegisterHeaders : RegisterStart(h, secret)
  \/ \E h \in Handlers : RegisterStep(h)
  \/ ProcRegistration

SpecRegister == InitRegistry /\ [][NextRegister]_vars

\* The hand-over of a filled connection: a device registers while the kill
\* switch may be thrown; the processor's steps are the receive from the
\* Registrations stream, the kill and the drain.
ProcessorDrainStep ==
  \/ ProcRegistration
  \/ ProcKill
  \/ ProcClose
  \/ ProcTerminate

NextHandOver ==
  \/ ProcessorDrainStep
  \/ Live /\ \E h \in ProcHandlers : RegisterStart(h, SecretC)
  \/ Live /\ \E h \in ProcHandlers : RegisterStep(h)
  \/ Live /\ SendKill

\* the processor and each HTTP handler are goroutines of their own: the
\* scheduler runs each of them whenever it can take a step
SpecHandOver ==
  /\ InitProc
  /\ [][NextHandOver]_vars
  /\ WF_vars(ProcessorDrainStep)
  /\ WF_vars(Live /\ \E h \in ProcHandlers : RegisterStep(h))

\* preregistration and registration alone
NextFill ==
  \/ \E h \in Handlers : \E name \in {"bulb", "lamp"} : PreregisterStart(h, name, SecretB)
  \/ \E h \in Handlers : PreregisterStep(h)
  \/ \E h \in Handlers : \E secret \in {SecretB, SecretC} : RegisterStart(h, secret)
  \/ \E h \in Handlers : RegisterStep(h)
  \/ ProcRegistration

SpecFill == InitRegistry /\ [][NextFill]_vars

(***************************************************************************)
(* Properties of the device control processor.                             *)
(***************************************************************************)
PoolClosedOnce == \A i \in 1..Len(pool) : closeCalls[pool[i]] = 1

\* C1: once Kill is signalled the processor calls Close() exactly once on
\* every connection of the pool, the wait handle is released only after all
\* of these calls, and the wait handle is eventually released.
C1KillClosesAll ==
  /\ [](waitReleased => drained = Len(pool) /\ PoolClosedOnce)
  /\ [](\A i \in 1..Len(pool) : closeCalls[pool[i]] <= 1)
  /\ (kill = "pending" ~> waitReleased)

C1Witness ==
  /\ waitReleased
  /\ kill = "received"
  /\ Len(pool) >= 2
  /\ PoolClosedOnce

\* C2: closing the Commands stream or the Registrations stream, with no Kill
\* sent, drains like Kill does: every pooled connection is closed, and the
\* wait handle is released afterwards.
C2ClosureDrains ==
  /\ [](procState = "Terminated" /\ kill = "idle"
          => \A c \in Range(pool) : closeCalls[c] > 0)
  /\ (kill = "idle" /\ cmdClosed ~> waitReleased)
  /\ (kill = "idle" /\ regClosed ~> waitReleased)

C2Witness ==
  /\ procState = "Terminated"
  /\ kill = "idle"
  /\ cmdClosed # regClosed
  /\ Len(pool) >= 2
  /\ \A c \in Range(pool) : closeCalls[c] > 0

\* C3: a command reader that cannot be read is logged with its error string
\* and leaves the processor Running at its select; a well-formed command
\* taken from the Commands stream, whatever came before it, is handed to the
\* connection of its device.
C3DispatchIsolation ==
  [][(commands # <<>> /\ commands' = Tail(commands)) =>
       LET r == Head(commands)
       IN IF r.err # ""
            THEN /\ r.err \in log'
                 /\ procState' = "Running"
                 /\ procPC' = Selecting
                 /\ pool' = pool
            ELSE r.dev \in Range(pool) =>
                   procPC' = [at |-> "send", conn |-> r.dev, n |-> r.n]]_vars

C3Witness ==
  /\ Len(published) = 2
  /\ published[1].err # ""
  /\ published[1].err \in log
  /\ procState = "Running"
  /\ published[2].dev = "d1"
  /\ delivered["d1"] = <<2>>

\* C4: no two Send invocations on one connection are in progress at the same
\* time, and a Send is only ever in progress on the processor task.
C4SingleWriter ==
  \A c \in DeviceIDs :
    /\ inSend[c] <= 1
    /\ inSend[c] = 1 => procPC.at = "send" /\ procPC.conn = c

C4Witness ==
  /\ inSend["d1"] = 1
  /\ \E h \in Handlers : At(h, "UpdateShorthand", "publish") /\ task[h].id = "d1"

\* C5: the commands written to the connection of a device are commands
\* addressed to it, in the order of their arrival on the Commands stream, none
\* of them twice.
C5OrderedDelivery ==
  \A d \in DeviceIDs :
    \A i \in 1..Len(delivered[d]) :
      /\ delivered[d][i] \in 1..Len(published)
      /\ published[delivered[d][i]].dev = d
      /\ i > 1 => delivered[d][i - 1] < delivered[d][i]

C5Witness ==
  /\ delivered["d1"] = <<1, 2>>

(***************************************************************************)
(* Properties of the registry.                                              *)
(***************************************************************************)
\* the devices a query names: by id, or by name
DevicesNamed(d) == {k \in DOMAIN deviceRows : k = d \/ deviceRows[k].name = d}

\* the permission stored for token t includes every bit of mask m
StoredPermissionCovers(t, m) ==
  /\ t \in DOMAIN tokenRows
  /\ BitAnd(Base2Value(tokenRows[t].permission), m) = m

\* C6: AuthorizeToken(d, t, m) returns true if and only if t is the shared
\* secret of d, or the permission stored for token t has all bits of m.
C6AuthorizeIffAllBits ==
  authCall.impl # "" =>
    (authCall.result <=>
       \E k \in DevicesNamed(authCall.device) :
         \/ authCall.token = deviceRows[k].secret
         \/ StoredPermissionCovers(authCall.token, authCall.mask))

\* the call that refutes C6: a token holding one bit of a two-bit mask, and not
\* the shared secret, was authorized
C6Witness ==
  /\ authCall.impl = "second"
  /\ authCall.result
  /\ authCall.token \in DOMAIN tokenRows
  /\ ~StoredPermissionCovers(authCall.token, authCall.mask)

\* C7: the feedback list of a device never holds more than
\* RedisMaxFeedbackEntries entries, whoever calls LogFeedback and however the
\* calls interleave.
C7FeedbackBounded ==
  \A d \in DOMAIN feedbackList : Len(feedbackList[d]) <= RedisMaxFeedbackEntries

\* the race that refutes C7: two calls have read the same LLEN below the limit
\* and are both about to push
C7Witness ==
  \E a \in Callers, b \in Callers :
    /\ a # b
    /\ At(a, "LogFeedback", "push") /\ At(b, "LogFeedback", "push")
    /\ task[a].id = task[b].id
    /\ task[a].count = RedisMaxFeedbackEntries - 1
    /\ task[b].count = RedisMaxFeedbackEntries - 1

\* C8: once RemoveDevice(id) has returned, FindDevice(id) answers not-found
\* and the token list of id is empty.
C8RemovedDeviceIsGone ==
  \A h \in Handlers :
    (ret[h].op = "RemoveDevice" /\ ret[h].res = Nil) =>
      /\ \A r \in FindDevice(ret[h].id) : r.err = ErrNotFound
      /\ ListOf(tokenList, ret[h].id) = <<>>

\* the interleaving that refutes C8: a CreateToken that found the device before
\* its removal pushes its token after RemoveDevice has returned
C8Witness ==
  \E h \in Handlers, g \in Handlers :
    /\ ret[h].op = "RemoveDevice" /\ ret[h].res = Nil
    /\ ret[g].op = "CreateToken" /\ ret[g].res = Nil /\ ret[g].id = ret[h].id
    /\ ListOf(tokenList, ret[h].id) # <<>>

\* FillRegistration is running for handler h (the device key parsed), and no
\* pending allocation had its secret when it listed them
FillsWithoutMatch(h) ==
  /\ task[h].op = "Register"
  /\ ParseDeviceKeyOk(task[h].secret)
  /\ IF task[h].pc = "keys"
       THEN \A a \in DOMAIN allocRows : allocRows[a].secret # task[h].secret
       ELSE task[h].nomatch

\* the steps of such a call leave the device index, the device rows and the
\* allocation rows as they are
FillFrame(h) ==
  (FillsWithoutMatch(h) /\ task'[h] # task[h]) =>
    /\ deviceIndex' = deviceIndex
    /\ deviceRows' = deviceRows
    /\ allocRows' = allocRows

FillReturned(h) == FillsWithoutMatch(h) /\ task'[h].op = "idle"

\* C9 as stated: FillRegistration with no allocation of the secret returns
\* not-found and leaves device index, device rows and allocation rows
\* unchanged.
C9FillNoMatchNotFound ==
  [][\A h \in Handlers :
       /\ FillFrame(h)
       /\ FillReturned(h) => ret'[h].res = ErrNotFound]_vars

\* C9, amended: FillRegistration with no allocation of the secret leaves
\* device index, device rows and allocation rows unchanged and returns
\* not-found, unless its KEYS command fails: then it returns the store's error
\* or bad-redis-response.
C9FillNoMatchNoop ==
  [][\A h \in Handlers :
       /\ FillFrame(h)
       /\ FillReturned(h) =>
            \/ ret'[h].res = ErrNotFound
            \/ /\ task[h].pc = "keys"
               /\ failures' = failures + 1
               /\ ret'[h].res \in {StoreError, ErrBadRedisResponse}]_vars

C9Witness ==
  \E h \in Handlers :
    /\ ret[h].op = "Register"
    /\ ret[h].res = ErrNotFound
    /\ IsIdle(h)
    /\ failures = 0
    /\ DOMAIN allocRows = {"a1"}
    /\ deviceIndex = <<"d1">>
    /\ DOMAIN deviceRows = {"d1"}

\* C10: no two device registrations share a deviceID, and no two share a name.
C10UniqueRegistrations ==
  \A a \in DOMAIN deviceRows, b \in DOMAIN deviceRows :
    a # b => /\ deviceRows[a].uuid # deviceRows[b].uuid
             /\ deviceRows[a].name # deviceRows[b].name

\* the state that refutes C10: two registered devices of one name
C10Witness ==
  \E a \in DOMAIN deviceRows, b \in DOMAIN deviceRows :
    /\ a # b
    /\ deviceRows[a].name = deviceRows[b].name
    /\ failures = 0

\* handler h is in fill and has written the device row of its uuid
FillCreatedRow(h) == task[h].op = "Register" /\ task[h].pc \in {"del", "push"}

\* C11: an allocation row is deleted only by a FillRegistration that matched
\* it and has created the device row; a Fill that created the device row
\* leaves fill with its allocation removed; no allocation yields two devices.
C11AllocationDeletedIffFilled ==
  /\ [][\A k \in DOMAIN allocRows :
          k \notin DOMAIN allocRows' =>
            \E h \in Handlers : /\ At(h, "Register", "del")
                                /\ task[h].key = k
                                /\ task[h].id \in DOMAIN deviceRows]_vars
  /\ [][\A h \in Handlers :
          (At(h, "Register", "del") /\ task'[h] # task[h]) =>
            task[h].key \notin DOMAIN allocRows']_vars
  /\ [](\A h \in Handlers, g \in Handlers :
          (h # g /\ FillCreatedRow(h) /\ FillCreatedRow(g)) => task[h].key # task[g].key)

\* the state that refutes C11 with no store failure: two registrations have
\* matched one allocation and both have written a device row
C11Witness ==
  \E h \in Handlers, g \in Handlers :
    /\ h # g
    /\ FillCreatedRow(h) /\ FillCreatedRow(g)
    /\ task[h].key = task[g].key
    /\ {task[h].id, task[g].id} \subseteq DOMAIN deviceRows
    /\ failures = 0

\* C12: every connection in the processor's pool belongs to a device that has
\* a registration row in the registry.
C12PooledDevicesRegistered ==
  \A i \in 1..Len(pool) : pool[i] \in DOMAIN deviceRows

\* a RemoveDevice call has returned nil for a device whose connection the
\* processor still pools, with no store failure on the way
C12Witness ==
  \E h \in Handlers :
    /\ ret[h].op = "RemoveDevice" /\ ret[h].res = Nil
    /\ ret[h].id \in Range(pool)
    /\ ret[h].id \notin DOMAIN deviceRows
    /\ failures = 0

\* C13: a Preregister of a name that an earlier successful Preregister holds
\* (with a well-formed key) creates no allocation and answers duplicate-name.
C13DuplicateNameRejected ==
  [][\A h \in Handlers :
       (task[h].op = "Preregister" /\ task[h].known /\ task'[h] # task[h]) =>
         /\ allocRows' = allocRows
         /\ task'[h] = Idle => ret'[h].res = "duplicate-name"]_vars

\* the only call of the behaviour, a Preregister of the name of the pending
\* allocation, has returned success and left a second allocation of that name
C13Witness ==
  \E h \in Handlers :
    /\ ops = 1 /\ failures = 0
    /\ ret[h] = [op |-> "Preregister", id |-> "bulb", res |-> Nil]
    /\ Cardinality({a \in DOMAIN allocRows : allocRows[a].name = "bulb"}) = 2

\* C14: with the Feedback stream closed and no other terminator (no kill,
\* Commands and Registrations open) the processor is Running, the wait handle
\* is not released and no pooled connection has been closed.
C14FeedbackClosureKeepsRunning ==
  (fbClosed /\ ~cmdClosed /\ ~regClosed /\ kill = "idle") =>
    /\ procState = "Running"
    /\ ~waitReleased
    /\ \A c \in Range(pool) : closeCalls[c] = 0

\* the Feedback stream is closed and emptied, the processor is back at its
\* select with a connection pooled
C14Witness ==
  /\ fbClosed /\ feedbackCh = <<>> /\ msgSeq > 0
  /\ ~cmdClosed /\ ~regClosed /\ kill = "idle"
  /\ AtSelect
  /\ pool # <<>>

\* the call of handler h has not reached TokenStore.CreateToken
BeforeCreate(h) == task[h].op = "CreateToken" /\ task[h].pc \in {"find", "auth"}

\* C15: POST /device-tokens calls TokenStore.CreateToken only from its
\* authorization step, with a non-empty header for which AuthorizeToken
\* (device, header, admin) is true; every request that ends before that call
\* ends in a logic error and has written no token.
C15CreateOnlyWhenAuthorized ==
  [][\A h \in Handlers :
       (BeforeCreate(h) /\ task'[h] # task[h]) =>
         /\ tokenRows' = tokenRows /\ tokenList' = tokenList
         /\ task'[h] = Idle => ret'[h].res \in {"invalid-name", ErrNotFound, "invalid-token"}
         /\ task'[h] # Idle /\ task'[h].pc = "cfind" =>
              /\ task[h].pc = "auth"
              /\ task[h].tok # ""
              /\ \E r \in FindDevice(task[h].id) :
                   AuthorizeToken(r, task[h].tok, SecurityDeviceTokenPermissionAdmin)
         /\ task'[h] # Idle => task'[h].pc \in {"auth", "cfind"}]_vars

\* both outcomes have happened: one handler was refused (no header, or a
\* token without the admin bit), the other was authorized and created a token
C15Witness ==
  \E h \in Handlers, g \in Handlers :
    /\ ret[h] = [op |-> "CreateToken", id |-> "d1", res |-> "invalid-token"]
    /\ ret[g] = [op |-> "CreateToken", id |-> "d1", res |-> Nil]
    /\ "t2" \in DOMAIN tokenRows
    /\ failures = 0

\* C16: a token requested with a permission that has none of the viewer,
\* controller and admin bits is written with the permission viewer.
C16DefaultsToViewer ==
  [][\A h \in Handlers :
       (/\ At(h, "CreateToken", "hmset")
        /\ BitAnd(task[h].asked, SecurityDeviceTokenPermissionAll) = 0
        /\ task'[h] # task[h]
        /\ tokenRows' # tokenRows) =>
         /\ task[h].key \in DOMAIN tokenRows'
         /\ ParseUint2(tokenRows'[task[h].key].permission) =
              [ok |-> TRUE, val |-> SecurityDeviceTokenPermissionViewer]
         /\ tokenRows'[task[h].key].permission = <<"1">>]_vars

\* the only request of the behaviour asked for the permission 8 and its token
\* is stored
C16Witness ==
  \E h \in Handlers :
    /\ ops = 1 /\ failures = 0
    /\ ret[h] = [op |-> "CreateToken", id |-> "d1", res |-> Nil]
    /\ "t2" \in DOMAIN tokenRows
    /\ tokenRows["t2"].permission = <<"1">>

\* the step is one of AllocateRegistration called by h
AllocateActs(h) == At(h, "AllocateRegistration", "allocate") /\ task'[h] # task[h]

\* the step adds exactly one allocation row, holding the name and the secret
\* of h's request, and changes nothing else of the store
AllocationWritten(h) ==
  /\ \E a \in DOMAIN allocRows' \ DOMAIN allocRows :
       /\ DOMAIN allocRows' = DOMAIN allocRows \cup {a}
       /\ allocRows'[a] = [name |-> task[h].name, secret |-> task[h].secret]
  /\ \A k \in DOMAIN allocRows : allocRows'[k] = allocRows[k]
  /\ UNCHANGED <<deviceRows, deviceIndex, feedbackList, tokenRows, tokenList>>

TooShort(h) ==
  Len(task[h].name) < 4 \/ Len(task[h].secret) < SecurityMinimumDeviceSharedSecretSize

RemoveActs(h, pc) == At(h, "RemoveDevice", pc) /\ task'[h] # task[h]

\* the step's store command failed
CommandFailed == failures' = failures + 1

\* C18: RemoveDevice runs DEL row, DEL feedback, LREM, LRANGE, DEL of each
\* listed token row, DEL token list, each step touching its own key only; a
\* failure of one of the first four ends the call with the error; a failed
\* DEL of a token row does not; the last DEL's result is the call's result.
C18RemoveDeviceSteps ==
  [][\A h \in Handlers :
       /\ RemoveActs(h, "delrow") =>
            /\ UNCHANGED <<deviceIndex, feedbackList, tokenRows, tokenList>>
            /\ IF CommandFailed THEN task'[h] = Idle /\ ret'[h].res = StoreError
               ELSE task'[h].pc = "delfeed" /\ deviceRows' = Del(deviceRows, task[h].id)
       /\ RemoveActs(h, "delfeed") =>
            /\ UNCHANGED <<deviceRows, deviceIndex, tokenRows, tokenList>>
            /\ IF CommandFailed THEN task'[h] = Idle /\ ret'[h].res = StoreError
               ELSE task'[h].pc = "lrem" /\ feedbackList' = Del(feedbackList, task[h].id)
       /\ RemoveActs(h, "lrem") =>
            /\ UNCHANGED <<deviceRows, feedbackList, tokenRows, tokenList>>
            /\ IF CommandFailed THEN task'[h] = Idle /\ ret'[h].res = StoreError
               ELSE task'[h].pc = "lrange" /\ deviceIndex' = RemoveFirst(deviceIndex, task[h].id)
       /\ RemoveActs(h, "lrange") =>
            /\ UNCHANGED storeVars
            /\ IF CommandFailed THEN task'[h] = Idle /\ ret'[h].res = StoreError
               ELSE task'[h].pc = "deltok" /\ task'[h].keys = ListOf(tokenList, task[h].id)
       /\ (RemoveActs(h, "deltok") /\ task[h].keys # <<>>) =>
            /\ UNCHANGED <<deviceRows, deviceIndex, feedbackList, tokenList>>
            /\ task'[h].pc = "deltok" /\ task'[h].keys = Tail(task[h].keys)
            /\ ~CommandFailed => tokenRows' = Del(tokenRows, Head(task[h].keys))
       /\ (RemoveActs(h, "deltok") /\ task[h].keys = <<>>) =>
            /\ UNCHANGED <<deviceRows, deviceIndex, feedbackList, tokenRows>>
            /\ task'[h] = Idle
            /\ IF CommandFailed THEN ret'[h].res = StoreError
               ELSE ret'[h].res = Nil /\ tokenList' = Del(tokenList, task[h].id)]_vars

\* the only call of the behaviour has returned nil although its LREM failed:
\* the removed device is still in the index
C18Witness ==
  \E h \in Handlers :
    /\ ops = 1 /\ failures = 1
    /\ ret[h] = [op |-> "RemoveDevice", id |-> "d1", res |-> Nil]
    /\ "d1" \in Range(deviceIndex)
    /\ "d1" \notin DOMAIN deviceRows

\* the step is one of ListRegistrations called by h
ListActs(h) == task[h].op = "ListRegistrations" /\ task'[h] # task[h]

\* the step is h's load of a listed id, and the load fails: the command
\* fails, or the row is missing or not well-formed
ListLoadFails(h) ==
  /\ ListActs(h)
  /\ task[h].pc = "load" /\ task[h].count < Len(task[h].keys)
  /\ \/ CommandFailed
     \/ loadDetails(RowOf(task[h].keys[task[h].count + 1])).err # Nil

\* C19: ListRegistrations returns an error and no results when the load of a
\* listed id fails; when it returns nil its list has one entry per id of the
\* index, in the order of the index.
C19ListRegistrationsAllOrNothing ==
  [][\A h \in Handlers :
       /\ ListLoadFails(h) =>
            /\ task'[h].op = "idle"
            /\ ret'[h].res # Nil
            /\ task'[h].out = <<>>
       /\ (ListActs(h) /\ task'[h].op = "idle" /\ ret'[h].res = Nil) =>
            task'[h].out = task[h].keys]_vars

\* the only calls of the behaviour are a RemoveDevice that has deleted the
\* row of d2 and a ListRegistrations that found d2 in the index and has
\* returned nil with the list of d1 alone, no store command having failed
C19Witness ==
  \E h \in Handlers :
    /\ failures = 0
    /\ ret[h] = [op |-> "ListRegistrations", id |-> "", res |-> Nil]
    /\ task[h].op = "idle"
    /\ task[h].out = <<"d1">>
    /\ deviceIndex = <<"d2", "d1">>

\* the entry has a row with all four fields whose permission parses as a
\* base-2 number of at most 32 bits
TokenLoadable(raw) ==
  /\ raw \in DOMAIN tokenRows
  /\ tokenRows[raw].id # "" /\ tokenRows[raw].name # "" /\ tokenRows[raw].device # ""
  /\ tokenRows[raw].permission # <<>>
  /\ \A i \in 1..Len(tokenRows[raw].permission) : tokenRows[raw].permission[i] \in {"0", "1"}
  /\ SignificantBits(tokenRows[raw].permission) <= 32

\* C20: once the device is found and its token list is read, ListTokens does
\* not fail: an entry whose load fails, whose row is incomplete or whose
\* permission does not parse is left out, every other entry is appended, and
\* the call returns the entries appended, with a nil error.
C20ListTokensSkipsBadEntries ==
  [][\A h \in Handlers :
       (At(h, "ListTokens", "load") /\ task'[h] # task[h]) =>
         IF task[h].count < Len(task[h].keys)
           THEN LET raw == task[h].keys[task[h].count + 1]
                IN /\ task'[h].op = "ListTokens" /\ task'[h].pc = "load"
                   /\ task'[h].count = task[h].count + 1
                   /\ task'[h].keys = task[h].keys
                   /\ IF ~CommandFailed /\ TokenLoadable(raw)
                        THEN /\ Len(task'[h].out) = Len(task[h].out) + 1
                             /\ SubSeq(task'[h].out, 1, Len(task[h].out)) = task[h].out
                             /\ task'[h].out[Len(task'[h].out)].TokenID = TokenUUID(raw)
                        ELSE task'[h].out = task[h].out
           ELSE /\ task'[h].op = "idle"
                /\ ret'[h].res = Nil
                /\ task'[h].out = task[h].out]_vars

\* a call has returned nil with one entry of a list of two, the other entry
\* having a row whose permission does not parse; no store command failed
C20Witness ==
  \E h \in Handlers :
    /\ failures = 0
    /\ task[h].op = "idle"
    /\ ret[h] = [op |-> "ListTokens", id |-> "d1", res |-> Nil]
    /\ Len(task[h].out) = 1
    /\ DOMAIN tokenRows = {"t1", "t2"}
    /\ \E t \in DOMAIN tokenRows : tokenRows[t].permission = OverflowPermission

\* the request of h's Preregister fails a validation: of the handler (name
\* and secret longer than one character, a well-formed RSA key) or of the
\* registry (name of 4 characters, secret of 20)
PreregisterInvalid(h) ==
  \/ Len(task[h].name) < 4
  \/ Len(task[h].secret) < SecurityMinimumDeviceSharedSecretSize
  \/ task[h].secret \notin Secrets

\* C21: a Preregister whose name or secret fails validation ends in a logic
\* error; it ends in ServerError only when a store command has failed.
C21ValidationIsLogicError ==
  [][\A h \in Handlers :
       (task[h].op = "Preregister" /\ task'[h] # task[h] /\ task'[h].op = "idle") =>
         /\ PreregisterInvalid(h) =>
              ret'[h].res \in {"bad-request", "duplicate-name", "invalid-key", "bad-key-format"}
         /\ ret'[h].res = "server-error" => CommandFailed]_vars

\* the only call of the behaviour, a Preregister of a two-character name with
\* a well-formed key, has ended in ServerError with no store failure
C21Witness ==
  \E h \in Handlers :
    /\ ops = 1 /\ failures = 0
    /\ ret[h] = [op |-> "Preregister", id |-> "tv", res |-> "server-error"]
    /\ DOMAIN allocRows = {"a1"}

\* the step is the processor's receive of a connection on Registrations
RegistrationReceived == registrations # <<>> /\ registrations' = Tail(registrations)

\* C22: a connection received on the Registrations stream is appended to the
\* pool exactly when FindDevice(conn.GetID()) succeeds; when it fails the
\* connection is closed and the pool is unchanged.
C22PooledIffFound ==
  [][RegistrationReceived =>
       LET conn == Head(registrations)
       IN \/ /\ pool' = Append(pool, conn)
             /\ closeCalls' = closeCalls
             /\ ~CommandFailed
             /\ \E r \in FindDevice(conn) : r.err = Nil
          \/ /\ pool' = pool
             /\ closeCalls' = [closeCalls EXCEPT ![conn] = @ + 1]
             /\ CommandFailed \/ \E r \in FindDevice(conn) : r.err # Nil]_vars

\* both cases have happened: one connection is pooled, another one was
\* refused by the processor, which logged the error and closed it
C22Witness ==
  /\ pool # <<>>
  /\ log # {}
  /\ \E c \in DeviceIDs : c \notin Range(pool) /\ closeCalls[c] = 1

\* the step is the processor's receive of a reader on Commands
CommandReceived == commands # <<>> /\ commands' = Tail(commands)

\* the step is the return of the Send the processor is in
SendReturned == procPC.at = "send" /\ procPC' # procPC

\* C23: handling a command, with or without an error of the read, the lookup
\* or the Send, changes neither the pool nor any connection's Close count nor
\* the processor's state; a pooled connection stays in its place, and is
\* closed only while the processor drains.
C23CommandErrorsKeepPool ==
  /\ [][(CommandReceived \/ SendReturned) =>
          /\ pool' = pool
          /\ closeCalls' = closeCalls
          /\ procState' = procState]_vars
  /\ [][\A i \in 1..Len(pool) :
          /\ i <= Len(pool') /\ pool'[i] = pool[i]
          /\ closeCalls'[pool[i]] # closeCalls[pool[i]] => procState = "Draining"]_vars

\* a Send has failed and a reader could not be read: both errors are logged,
\* the processor is Running at its select and no pooled connection is closed
C23Witness ==
  /\ {"send-error", "bad-read"} \subseteq log
  /\ AtSelect
  /\ pool # <<>>
  /\ \A c \in Range(pool) : closeCalls[c] = 0

\* C24: the processor enters Draining between two messages, and from then on
\* it never is Running again, appends nothing to the pool, starts no Send
\* and no LogFeedback and takes nothing off a stream; Terminated is final and
\* no pooled connection is closed twice.
C24DrainingIsFinal ==
  /\ [][procState # "Running" =>
          /\ procState' # "Running"
          /\ procState = "Terminated" => procState' = "Terminated"
          /\ pool' = pool
          /\ inSend' = inSend /\ delivered' = delivered
          /\ task'[Processor] = task[Processor]
          /\ procPC' = procPC
          /\ Len(commands') >= Len(commands)
          /\ Len(registrations') >= Len(registrations)
          /\ Len(feedbackCh') >= Len(feedbackCh)]_vars
  /\ [](procState # "Running" => procPC = Selecting /\ IsIdle(Processor))
  /\ [](\A c \in Range(pool) : closeCalls[c] <= 1)

\* the processor has terminated on the kill switch while a command, a
\* connection and a feedback reader were waiting and the Commands stream, a
\* second terminator, was closed
C24Witness ==
  /\ procState = "Terminated"
  /\ kill = "received"
  /\ cmdClosed
  /\ commands # <<>> /\ registrations # <<>> /\ feedbackCh # <<>>
  /\ closeCalls["d1"] = 1

\* the step is the processor's receive of a reader on Feedback
FeedbackReceived == feedbackCh # <<>> /\ feedbackCh' = Tail(feedbackCh)

\* the step is the return of registry.LogFeedback to the processor
FeedbackReturned == procPC.at = "feedback" /\ procPC' # procPC

\* C25: handling a feedback reader changes neither the pool nor any Close
\* count nor the processor's state; a reader that cannot be read, and a
\* LogFeedback that fails, are logged and leave the processor at its select,
\* Running.
C25FeedbackErrorsKeepRunning ==
  [][/\ (FeedbackReceived \/ FeedbackReturned) =>
          /\ pool' = pool
          /\ closeCalls' = closeCalls
          /\ procState' = procState /\ procState = "Running"
     /\ (FeedbackReceived /\ Head(feedbackCh).err # "") =>
          /\ Head(feedbackCh).err \in log'
          /\ procPC' = Selecting
     /\ (FeedbackReturned /\ ret[Processor].res # Nil) =>
          /\ ret[Processor].res \in log'
          /\ procPC' = Selecting]_vars

\* an unreadable feedback reader and a failed LogFeedback are in the log, and
\* the processor, still Running with its pool, is now in the Send of a command
C25Witness ==
  /\ {"bad-read", ErrBadInterchangeAuthentication} \subseteq log
  /\ procState = "Running"
  /\ procPC.at = "send" /\ procPC.conn = "d1"
  /\ pool = <<"d1">>
  /\ closeCalls["d1"] = 0

\* the reader was handled: its error is in the log, or its message was sent,
\* or the error of its Send or of its lookup is in the log
Handled(r) ==
  IF r.err # "" THEN r.err \in log
  ELSE \/ \E i \in 1..Len(delivered[r.dev]) : delivered[r.dev][i] = r.n
       \/ "send-error" \in log
       \/ ErrNotFound \in log

\* C26: when only the closure of the Commands stream has ended the processor
\* (no kill, Registrations open), no reader is left on the stream and every
\* reader that was put on it has been handled.
C26CommandsHandledBeforeDrain ==
  (procState # "Running" /\ kill = "idle" /\ ~regClosed) =>
    /\ cmdClosed
    /\ commands = <<>>
    /\ \A i \in 1..Len(published) : Handled(published[i])

\* the processor has terminated on the closure of the Commands stream alone,
\* after two readers: the unreadable one is logged, the other one was sent
C26Witness ==
  /\ procState = "Terminated" /\ waitReleased
  /\ kill = "idle" /\ ~regClosed /\ cmdClosed
  /\ Len(published) = 2
  /\ "bad-read" \in log
  /\ \E c \in Range(pool) : delivered[c] # <<>>

\* C27: a Send begins only when a readable command reader is received, on
\* the one pooled connection whose id is the message's deviceID; a reader
\* that cannot be read or has no pooled connection starts no Send; no message
\* is written twice or to a connection of another device.
C27SendOnlyToAddressee ==
  /\ [][\A c \in DeviceIDs :
          inSend'[c] # inSend[c] =>
            \/ /\ CommandReceived
               /\ Head(commands).err = "" /\ Head(commands).dev = c
               /\ c \in Range(pool)
               /\ inSend' = [inSend EXCEPT ![c] = @ + 1]
            \/ SendReturned /\ procPC.conn = c /\ inSend' = [inSend EXCEPT ![c] = @ - 1]]_vars
  /\ [][(CommandReceived /\ (Head(commands).err # "" \/ Head(commands).dev \notin Range(pool))) =>
          inSend' = inSend /\ delivered' = delivered /\ procPC' = procPC]_vars
  /\ [](\A c \in DeviceIDs : \A i \in 1..Len(delivered[c]) :
          /\ delivered[c][i] \in 1..Len(published)
          /\ published[delivered[c][i]].dev = c
          /\ \A j \in 1..Len(delivered[c]) : delivered[c][j] = delivered[c][i] => j = i)
  /\ [](\A c \in DeviceIDs : inSend[c] <= 1)

\* two commands were handled by a processor that pools d1 alone: the one for
\* d1 was sent once on d1's connection, the one for d2 started no Send
C27Witness ==
  /\ pool = <<"d1">>
  /\ Len(published) = 2 /\ commands = <<>> /\ AtSelect
  /\ {published[1].dev, published[2].dev} = {"d1", "d2"}
  /\ Len(delivered["d1"]) = 1 /\ delivered["d2"] = <<>>
  /\ ErrNotFound \in log

\* the step is one of LogFeedback called by c, at the step named pc
LogFeedbackActs(c, pc) == At(c, "LogFeedback", pc) /\ task'[c] # task[c]

\* C28: a LogFeedback whose LLEN answers RedisMaxFeedbackEntries or more goes
\* on to trim; the trim keeps the RedisMaxFeedbackEntries - 1 newest entries
\* and is followed by the push; a failed trim ends the call with the error
\* and the list as it was.
C28TrimBeforePush ==
  [][\A c \in Callers :
       /\ (LogFeedbackActs(c, "llen") /\ ~CommandFailed) =>
            task'[c].pc = IF Len(ListOf(feedbackList, task[c].id)) >= RedisMaxFeedbackEntries
                            THEN "trim" ELSE "push"
       /\ LogFeedbackActs(c, "trim") =>
            IF CommandFailed
              THEN /\ task'[c] = Idle
                   /\ ret'[c].res = StoreError
                   /\ feedbackList' = feedbackList
              ELSE LET list == ListOf(feedbackList, task[c].id)
                       kept == IF Len(list) < RedisMaxFeedbackEntries - 1
                                 THEN Len(list) ELSE RedisMaxFeedbackEntries - 1
                   IN /\ task'[c].pc = "push"
                      /\ ListOf(feedbackList', task[c].id) = SubSeq(list, 1, kept)
       /\ LogFeedbackActs(c, "push") =>
            IF CommandFailed THEN feedbackList' = feedbackList
            ELSE ListOf(feedbackList', task[c].id) =
                   <<task[c].msg>> \o ListOf(feedbackList, task[c].id)]_vars

\* a caller found the list full, has trimmed it and is about to push
C28Witness ==
  \E c \in Callers :
    /\ At(c, "LogFeedback", "push")
    /\ task[c].count >= RedisMaxFeedbackEntries
    /\ Len(ListOf(feedbackList, task[c].id)) = RedisMaxFeedbackEntries - 1
    /\ failures = 0

\* C29: the feedback list of a device changes only by a push that puts the
\* caller's message at its head or by a cut of its tail, so that it lists
\* the messages from the last pushed to the first pushed and loses the
\* first pushed ones; a ListFeedback that succeeds returns the head of the
\* list, in the order of the list.
C29LastInFirstOut ==
  [][LET old == ListOf(feedbackList, "d1")
         new == ListOf(feedbackList', "d1")
     IN /\ new # old =>
             \/ \E c \in Callers : /\ LogFeedbackActs(c, "push")
                                   /\ new = <<task[c].msg>> \o old
             \/ /\ Len(new) < Len(old)
                /\ \A i \in 1..Len(new) : new[i] = old[i]
        /\ \A c \in Callers :
             (At(c, "ListFeedback", "lrange") /\ task'[c] # task[c] /\ ret'[c].res = Nil) =>
               /\ Len(task'[c].out) = IF task[c].count + 1 < Len(old)
                                        THEN task[c].count + 1 ELSE Len(old)
               /\ \A i \in 1..Len(task'[c].out) : task'[c].out[i] = old[i]]_vars

\* two messages were logged on a full list, each push dropped the oldest
\* entry, and a ListFeedback returned the two messages before the older ones
C29Witness ==
  \E c \in Callers :
    /\ ret[c].op = "ListFeedback" /\ ret[c].res = Nil
    /\ task[c].out = <<2, 1, 0 - 1>>
    /\ Len(ListOf(feedbackList, "d1")) = RedisMaxFeedbackEntries
    /\ ListOf(feedbackList, "d1")[RedisMaxFeedbackEntries] = 0 - (RedisMaxFeedbackEntries - 2)

\* FillRegistration has returned nil to the Register handler h: it filled the
\* allocation that an AllocateRegistration of task[h].name and task[h].secret
\* had written, under the id task[h].id
FillSucceeded(h) == At(h, "Register", "push")

\* what the claim expects FindDevice to return after the fill of h
FilledDetails(h) ==
  [err |-> Nil, DeviceID |-> task[h].id, Name |-> task[h].name, SharedSecret |-> task[h].secret]

\* C30: once FillRegistration(s, id) has succeeded on the allocation of
\* name n and secret s, FindDevice(id) and FindDevice(n) return the device
\* id, n, s whatever the order of the key scan, and the index that
\* ListRegistrations reads holds id.
C30AllocateFillFind ==
  \A h \in Handlers :
    FillSucceeded(h) =>
      /\ FindDevice(task[h].id) = {FilledDetails(h)}
      /\ FindDevice(task[h].name) = {FilledDetails(h)}
      /\ task[h].id \in Range(deviceIndex)

\* with no store failure and no other call in progress, an allocation of the
\* name bulb was written and filled, each allocation was filled once, and
\* FindDevice of the name can return the device of the other allocation
C30Witness ==
  \E h \in Handlers :
    /\ FillSucceeded(h)
    /\ failures = 0
    /\ allocRows = <<>>
    /\ \E g \in Handlers \ {h} :
         IsIdle(g) /\ ret[g] = [op |-> "AllocateRegistration", id |-> "bulb", res |-> Nil]
    /\ FindDevice(task[h].id) = {FilledDetails(h)}
    /\ task[h].name = "bulb"
    /\ \E r \in FindDevice(task[h].name) :
         r.err = Nil /\ r.DeviceID # task[h].id /\ r.SharedSecret # task[h].secret

\* RedisRegistry.CreateToken called by h returns nil at this step
CreateTokenSucceeds(h) ==
  At(h, "CreateToken", "hmset") /\ task'[h] # task[h] /\ ret'[h].res = Nil

\* C31: when CreateToken(d, name, p) returns nil with the raw token r,
\* FindToken(r) answers the minted TokenID, the name, d and a permission
\* whose base-2 text is that of p, and the token list of d that ListTokens
\* reads holds r with a row that loads.
C31CreateFindRoundTrip ==
  [][\A h \in Handlers :
       CreateTokenSucceeds(h) =>
         \A r \in {task[h].key} :
            /\ FindToken(r)'.err = Nil
            /\ FindToken(r)'.TokenID = TokenUUID(r)
            /\ FindToken(r)'.Name = task[h].name
            /\ FindToken(r)'.DeviceID = task[h].id
            /\ FormatBase2(FindToken(r)'.Permission) = FormatUint(task[h].hi, task[h].perm)
            /\ r \in Range(ListOf(tokenList', task[h].id))
            /\ loadToken(r)'.err = Nil]_vars

\* a token of permission 2^32 + 1 was created for d1 by the only call of the
\* behaviour, with no store failure, and FindToken of it fails
C31Witness ==
  \E h \in Handlers :
    /\ ops = 1 /\ failures = 0
    /\ ret[h] = [op |-> "CreateToken", id |-> "d1", res |-> Nil]
    /\ "t1" \in DOMAIN tokenRows
    /\ Len(tokenRows["t1"].permission) = 33
    /\ FindToken("t1").err # Nil

\* the step is one of the Register handler h
RegisterActs(h) == task[h].op = "Register" /\ task'[h] # task[h]

\* the step puts a connection on the Registrations stream
RegistrationPushed == Len(registrations') > Len(registrations)

\* C32: a Register handler puts a connection on the Registrations stream
\* only at the step that follows a Fill that returned nil for a key that
\* parsed, the connection carries the uuid given to Fill and the socket is
\* not closed; a handler that ends anywhere else closes its socket once and
\* pushes nothing; nothing but a Register handler pushes.
C32PushIffFilled ==
  [][/\ RegistrationPushed => \E h \in Handlers : RegisterActs(h) /\ task[h].pc = "push"
     /\ \A h \in Handlers :
          RegisterActs(h) =>
            IF task[h].pc = "push"
              THEN /\ ParseDeviceKeyOk(task[h].secret)
                   /\ registrations' = Append(registrations, task[h].id)
                   /\ closeCalls' = closeCalls
                   /\ ret'[h].res = Nil
              ELSE /\ registrations' = registrations
                   /\ IF task'[h].op = "idle"
                        THEN /\ ret'[h].res # Nil
                             /\ closeCalls' = [closeCalls EXCEPT ![task[h].id] = @ + 1]
                        ELSE closeCalls' = closeCalls
                   /\ task'[h].pc = "push" => (task[h].pc = "del" /\ task'[h].id = task[h].id)]_vars

\* a handler was refused for its key and its socket closed once, and the
\* connection of the device that filled the allocation was pushed with its
\* uuid, received by the processor and pooled, its socket open
C32Witness ==
  /\ \E h \in Handlers : ret[h] = [op |-> "Register", id |-> "d3", res |-> "invalid-key"]
  /\ closeCalls["d3"] = 1
  /\ closeCalls["d2"] = 0
  /\ "d2" \in Range(pool)

\* C33: the permission of every token row written through POST
\* /device-tokens parses to a value of 1..SecurityDeviceTokenPermissionAll.
C33StoredPermissionInMask ==
  \A t \in DOMAIN tokenRows :
    /\ ParseUint2(tokenRows[t].permission).ok
    /\ ParseUint2(tokenRows[t].permission).val \in 1..SecurityDeviceTokenPermissionAll

\* the only call of the behaviour, a request of the permission 9, has
\* returned success and the stored permission is 1001
C33Witness ==
  \E h \in Handlers :
    /\ ops = 1 /\ failures = 0
    /\ ret[h] = [op |-> "CreateToken", id |-> "d1", res |-> Nil]
    /\ "t1" \in DOMAIN tokenRows
    /\ tokenRows["t1"].permission = <<"1", "0", "0", "1">>
    /\ FindToken("t1").Permission = 9

\* C34: a call AuthorizeToken(d, t, m) that returns true with a token t that
\* is not the shared secret of d was made with a token whose row names the
\* device d.
C34TokenBoundToDevice ==
  (/\ authCall.impl # ""
   /\ authCall.result
   /\ \A k \in DevicesNamed(authCall.device) : authCall.token # deviceRows[k].secret) =>
    /\ authCall.token \in DOMAIN tokenRows
    /\ tokenRows[authCall.token].device \in DevicesNamed(authCall.device)

\* the first definition authorized, for the admin permission on d2, the
\* token that was created for d1
C34Witness ==
  /\ authCall.impl = "first"
  /\ authCall.result
  /\ authCall.device = "d2"
  /\ authCall.token = "t1"
  /\ authCall.mask = SecurityDeviceTokenPermissionAdmin
  /\ tokenRows["t1"].device = "d1"

\* the devices created from the pending allocation of the initial state
FilledFromPending == {d \in DOMAIN deviceRows : deviceRows[d].secret = SecretC}

\* C35: with one pending allocation and no store failure, Register handlers
\* that present its secret, at the same time or not, create at most one
\* device row and one index entry between them, and at most one of them is
\* answered success.
C35OneFillPerAllocation ==
  failures = 0 =>
    /\ Cardinality(FilledFromPending) <= 1
    /\ Cardinality({i \in 1..Len(deviceIndex) : deviceIndex[i] # "d1"}) <= 1
    /\ Cardinality({h \in Handlers : ret[h].op = "Register" /\ ret[h].res = Nil}) <= 1

\* with no store failure both handlers have filled the one allocation: both
\* were answered success, two device rows and two index entries exist
C35Witness ==
  /\ failures = 0
  /\ \A h \in Handlers : ret[h].op = "Register" /\ ret[h].res = Nil
  /\ FilledFromPending = {"d2", "d3"}
  /\ {"d2", "d3"} \subseteq Range(deviceIndex)
  /\ allocRows = <<>>

\* no call of a handler is in progress
Quiescent == \A h \in Handlers : IsIdle(h)

\* C36: whenever no FillRegistration or RemoveDevice call is in progress,
\* the device index holds exactly the ids that have a device row, each once,
\* so that every indexed id loads.
C36IndexMatchesRows ==
  Quiescent =>
    /\ Range(deviceIndex) = DOMAIN deviceRows
    /\ \A i \in 1..Len(deviceIndex), j \in 1..Len(deviceIndex) :
         deviceIndex[i] = deviceIndex[j] => i = j
    /\ \A i \in 1..Len(deviceIndex) : loadDetails(RowOf(deviceIndex[i])).err = Nil

\* the only call of the behaviour, a Register whose HMSET failed on the
\* store, has returned: its uuid is in the index and has no device row, and
\* the load of ListRegistrations fails on it
C36Witness ==
  /\ Quiescent
  /\ ops = 1
  /\ \E h \in Handlers : ret[h] = [op |-> "Register", id |-> "d2", res |-> StoreError]
  /\ "d2" \in Range(deviceIndex)
  /\ "d2" \notin DOMAIN deviceRows
  /\ loadDetails(RowOf("d2")).err # Nil

\* a RemoveDevice of d1 has returned nil
RemovedNil == \E h \in Handlers : ret[h] = [op |-> "RemoveDevice", id |-> "d1", res |-> Nil]

\* the token rows that name the device d1
TokenRowsOfRemoved == {t \in DOMAIN tokenRows : tokenRows[t].device = "d1"}

\* C37 as stated: once RemoveDevice(d1) has returned nil, no token row of d1
\* is left and FindToken fails for each of its tokens.
C37NoTokenSurvives ==
  RemovedNil =>
    /\ TokenRowsOfRemoved = {}
    /\ \A t \in {"t1", "t2"} : FindToken(t).err # Nil

\* C37: once RemoveDevice(d1) has returned nil, with no CreateToken for d1
\* under way, the token rows of d1 that are left are at most as many as the
\* store commands that failed; with no failure none is left.
C37TokenSurvivesOnlyFailedDel ==
  RemovedNil => Cardinality(TokenRowsOfRemoved) <= failures

\* RemoveDevice(d1) has returned nil after the DEL of one token row failed:
\* the device, its index entry and its token list are gone, the token row is
\* there and FindToken answers it
C37Witness ==
  /\ RemovedNil
  /\ ops = 1 /\ failures = 1
  /\ "d1" \notin DOMAIN deviceRows
  /\ "d1" \notin Range(deviceIndex)
  /\ "d1" \notin DOMAIN tokenList
  /\ TokenRowsOfRemoved = {"t1"}
  /\ FindToken("t1").err = Nil

\* the connection of device d is at the Registrations stream: its handler is
\* at the send that follows a successful Fill, or the stream holds it
HandedOver(d) ==
  \/ \E i \in 1..Len(registrations) : registrations[i] = d
  \/ \E h \in Handlers : At(h, "Register", "push") /\ task[h].id = d

Pooled(d) == \E i \in 1..Len(pool) : pool[i] = d

\* C38: every connection that a Register handler hands to the Registrations
\* stream after a successful Fill ends up closed or in the pool (from where
\* the drain closes it), also when the processor starts draining while the
\* handler is at the push: no handler stays at the push forever and no such
\* connection stays open and unpooled.
C38HandedOverIsClosed ==
  \A d \in DeviceIDs : HandedOver(d) ~> (closeCalls[d] >= 1 \/ Pooled(d))

\* the processor has terminated on the kill while the connection of a filled
\* device is still at the stream: it is open and in no pool
C38Witness ==
  /\ procState = "Terminated"
  /\ kill = "received"
  /\ \E d \in DeviceIDs :
       /\ HandedOver(d)
       /\ d \in DOMAIN deviceRows
       /\ closeCalls[d] = 0
       /\ ~Pooled(d)

\* C39: a ListFeedback(id, count) of a found device with count >= 1 that
\* returns nil returns at most count messages, whatever the length of the
\* stored list.
C39AtMostCount ==
  [][\A c \in Callers :
       (/\ At(c, "ListFeedback", "lrange")
        /\ task[c].count >= 1
        /\ task'[c] # task[c]
        /\ ret'[c].res = Nil) => Len(task'[c].out) <= task[c].count]_vars

\* ListFeedback("d1", 2) on a list of RedisMaxFeedbackEntries entries that no
\* LogFeedback has touched returned its three newest entries (the counts
\* asked for are those of FeedbackCounts)
C39Witness ==
  \E c \in Callers :
    /\ ret[c].op = "ListFeedback" /\ ret[c].id = "d1" /\ ret[c].res = Nil
    /\ 2 \in FeedbackCounts
    /\ task[c].out = <<0 - 1, 0 - 2, 0 - 3>>
    /\ ListOf(feedbackList, "d1") = OldRing(RedisMaxFeedbackEntries)

====
